---- MODULE Spec2Model ----
(***************************************************************************)
(* A model of the Gemini request broker of health-coach-ai:                *)
(*   modules/gemini_request_manager.py  GeminiRequestManager               *)
(*   modules/gemini_integration.py      GeminiHealthAdvisor                *)
(* Time is counted in tenths of a second, so that the 0.1 s the limiter    *)
(* adds to its sleep is one unit.  Threads are the callers' threads; each  *)
(* runs one call at a time, and pc[t] is its position in the code.         *)
(***************************************************************************)
EXTENDS Integers, Sequences, FiniteSets, TLC

\* ------------------------------------------------------------------ bounds
MaxRpm == 2          \* requests_per_minute is drawn from 1..MaxRpm
MaxRetries == 2      \* max_retries is drawn from 0..MaxRetries
MaxCalls == 3        \* calls started in one behaviour
MaxTime == 600       \* idle time (Tick) stops passing at this clock value
TickStep == 300      \* idle time passes in steps of this length
CacheMaxSize == 2    \* _cache_max_size (50 in the source), scaled down
MaxFailures == 4     \* failures of the external service in one behaviour
MaxLines == 4        \* lines of a reply that is not JSON
MaxWords == 3        \* words of an error message

\* ------------------------------------------------------- program constants
Window == 600            \* the 60 s of _wait_for_rate_limit, in tenths
Epsilon == 1             \* the 0.1 s added to the limiter's sleep
RetryWaitSeconds == 350  \* retry_wait_seconds, 35 s
NumModels == 4           \* len(PREFERRED_MODELS)

\* the caller threads
Threads == {1, 2}

Max(a, b) == IF a >= b THEN a ELSE b

VARIABLES
    clock,                \* time.time()
    requests_per_minute,  \* GeminiRequestManager.requests_per_minute
    max_retries,          \* GeminiRequestManager.max_retries
    retry_wait_seconds,   \* GeminiRequestManager.retry_wait_seconds
    request_times,        \* GeminiRequestManager._request_times (deque)
    lock,                 \* GeminiRequestManager._lock: 0 free, else holder
    pc,                   \* per thread: position in the code
    op,                   \* per thread: the public method it is running
    attempt,              \* per thread: generate's local `attempt`
    last_error,           \* per thread: generate's local `last_error`
    wake,                 \* per thread: end of the time.sleep it is in
    gen_out,              \* per thread: how generate() ended
    result,               \* per thread: what the last call returned or raised
    arg,                  \* per thread: the arguments of the call it runs
    analysis,             \* per thread: the local `analysis` of the call
    oldest_key,           \* per thread: the local `oldest_key` of the call
    enabled,              \* GeminiHealthAdvisor.enabled
    model,                \* GeminiHealthAdvisor.model: 0 is None, else the
                          \*   place of the model in PREFERRED_MODELS
    request_manager,      \* GeminiHealthAdvisor.request_manager is set
    initialization_error, \* GeminiHealthAdvisor.initialization_error is set
    analysis_cache,       \* GeminiHealthAdvisor._analysis_cache: a dict, as
                          \*   its <<key, value>> pairs in insertion order
    ctor,                 \* position of GeminiHealthAdvisor.__init__
    candidate,            \* __init__'s position in PREFERRED_MODELS
    calls,                \* number of calls started (bounds the behaviour)
    probed,               \* history: the probes made, in order, each as
                          \*   <<candidate, how its test request ended>>
    inserted,             \* history: the last _cache_max_size + 1 keys
                          \*   stored in the cache, in order, each with
                          \*   whether a later lookup hit it
    looked,               \* history, per thread: how the cache lookup of
                          \*   the current call went ("hit", "miss", "none")
    prev,                 \* history, per thread: -1, or the number of
                          \*   external invocations of the call before the
                          \*   current one when the two are sequential
                          \*   generate_full_health_analysis calls for one
                          \*   profile hash and the earlier one missed the
                          \*   cache and had every invocation succeed
    dispatched,           \* history: the external invocations so far
    admitted,             \* history: the last requests_per_minute + 1
                          \*   timestamps recorded since the last reset
    invoked,              \* history, per thread: outcomes of the external
                          \*   invocations of the current call, in order
    slept                 \* history, per thread: the sleeps of the current
                          \*   call, <<kind, requested length>>, in order

cfgVars == <<requests_per_minute, max_retries, retry_wait_seconds>>
limVars == <<request_times, lock, admitted>>
ctorVars == <<enabled, model, request_manager, initialization_error, ctor,
              candidate, probed>>
cacheVars == <<analysis_cache, inserted>>
callVars == <<op, arg, calls>>
genVars == <<attempt, last_error, gen_out, invoked>>
locVars == <<analysis, oldest_key, looked, prev>>
vars == <<clock, cfgVars, limVars, ctorVars, cacheVars, callVars, genVars,
          locVars, pc, wake, slept, result, dispatched>>

None == [kind |-> "none"]

\* ------------------------------------------------------------ error values
\* An exception is its type name and its message, both as lower-cased words,
\* and the invocation that raised it (n), which tells two errors apart.
ErrQuota(n) == [kind |-> "error", type |-> <<"resourceexhausted">>,
                text |-> <<"429", "quota", "exceeded">>, n |-> n]
ErrFatal(n) == [kind |-> "error", type |-> <<"valueerror">>,
                text |-> <<"invalid", "argument">>, n |-> n]
ErrValue == [kind |-> "error", type |-> <<"valueerror">>,
             text |-> <<"prompt", "must", "be", "a", "non-empty", "string">>,
             n |-> 0]
ErrRuntime == [kind |-> "error", type |-> <<"runtimeerror">>,
               text |-> <<"request", "failed", "after", "retries">>, n |-> 0]

\* pattern occurs in s as a contiguous run of words
Contains(s, pattern) ==
    \E i \in 0..(Len(s) - Len(pattern)) :
        \A j \in 1..Len(pattern) : s[i + j] = pattern[j]

quota_patterns == { <<"429">>, <<"quota">>, <<"rate", "limit">>,
                    <<"quota", "exceeded">>, <<"resourceexhausted">>,
                    <<"too", "many", "requests">> }

\* (mutant) the type name is not looked at
IsQuotaErrorByText(error) ==
    \E pattern \in quota_patterns : Contains(error.text, pattern)

IsQuotaError(error) ==
    \E pattern \in quota_patterns :
        Contains(error.text, pattern) \/ Contains(error.type, pattern)

\* ------------------------------------------------------------- the limiter
\* (mutant) a list without maxlen
DequeAppendUnbounded(d, x) == Append(d, x)

\* deque(maxlen = requests_per_minute).append
DequeAppend(d, x) ==
    IF Len(d) >= requests_per_minute THEN Append(Tail(d), x) ELSE Append(d, x)

\* the history keeps one timestamp more than the deque does
Remember(h, x) ==
    IF Len(h) >= requests_per_minute + 1 THEN Append(Tail(h), x)
    ELSE Append(h, x)

\* (mutant) the margin subtracted instead of added
WaitTimeShort(time_since_oldest) == Window - time_since_oldest - Epsilon

\* wait_time = 60 - time_since_oldest + 0.1
WaitTime(time_since_oldest) == Window - time_since_oldest + Epsilon

\* self.min_delay_seconds when the argument is not given: 60 /
\* requests_per_minute; __init__ stores it and get_rate_limit_status reports
\* it, _wait_for_rate_limit does not read it
MinDelaySeconds == Window \div requests_per_minute

\* the window is full and its oldest entry is younger than 60 s
MustWait(now) ==
    /\ Len(request_times) >= requests_per_minute
    /\ now - request_times[1] < Window

\* where a thread goes once _wait_for_rate_limit has returned
AfterWait(t) == IF op[t] = "acquire" THEN "idle" ELSE "dispatch"

\* (mutant) the lock is not released when the timestamp is recorded at once
WaitForRateLimitKeepsLock(t) ==
    /\ pc[t] = "rl_enter"
    /\ lock = 0
    /\ lock' = t
    /\ IF MustWait(clock)
       THEN /\ wake' = [wake EXCEPT ![t] = clock + WaitTime(clock - request_times[1])]
            /\ slept' = [slept EXCEPT ![t] =
                   Append(@, <<"rate", WaitTime(clock - request_times[1])>>)]
            /\ pc' = [pc EXCEPT ![t] = "rl_sleep"]
            /\ UNCHANGED <<request_times, admitted>>
       ELSE /\ request_times' = DequeAppend(request_times, clock)
            /\ admitted' = Remember(admitted, clock)
            /\ pc' = [pc EXCEPT ![t] = AfterWait(t)]
            /\ UNCHANGED <<wake, slept>>
    /\ UNCHANGED <<clock, cfgVars, ctorVars, cacheVars, callVars, genVars,
                   locVars, result, dispatched>>

\* _wait_for_rate_limit up to its sleep: takes the lock, reads the time, and
\* either records it and releases the lock, or goes to sleep holding the lock
WaitForRateLimit(t) ==
    /\ pc[t] = "rl_enter"
    /\ lock = 0
    /\ IF MustWait(clock)
       THEN /\ lock' = t
            /\ wake' = [wake EXCEPT ![t] = clock + WaitTime(clock - request_times[1])]
            /\ slept' = [slept EXCEPT ![t] =
                   Append(@, <<"rate", WaitTime(clock - request_times[1])>>)]
            /\ pc' = [pc EXCEPT ![t] = "rl_sleep"]
            /\ UNCHANGED <<request_times, admitted>>
       ELSE /\ request_times' = DequeAppend(request_times, clock)
            /\ admitted' = Remember(admitted, clock)
            /\ pc' = [pc EXCEPT ![t] = AfterWait(t)]
            /\ UNCHANGED <<lock, wake, slept>>
    /\ UNCHANGED <<clock, cfgVars, ctorVars, cacheVars, callVars, genVars,
                   locVars, result, dispatched>>

\* (mutant) the end of the limiter's sleep checks the window again instead
\* of recording the time
RateLimitWakeRecheck(t) ==
    /\ pc[t] = "rl_sleep"
    /\ clock' = Max(clock, wake[t])
    /\ lock' = 0
    /\ wake' = [wake EXCEPT ![t] = 0]
    /\ pc' = [pc EXCEPT ![t] = "rl_enter"]
    /\ UNCHANGED <<cfgVars, ctorVars, cacheVars, callVars, genVars, locVars,
                   request_times, admitted, slept, result, dispatched>>

\* the end of the limiter's time.sleep: reads the time again, records it
\* without a second check, releases the lock
RateLimitWake(t) ==
    /\ pc[t] = "rl_sleep"
    /\ clock' = Max(clock, wake[t])
    /\ request_times' = DequeAppend(request_times, clock')
    /\ admitted' = Remember(admitted, clock')
    /\ lock' = 0
    /\ wake' = [wake EXCEPT ![t] = 0]
    /\ pc' = [pc EXCEPT ![t] = AfterWait(t)]
    /\ UNCHANGED <<cfgVars, ctorVars, cacheVars, callVars, genVars, locVars,
                   slept, result, dispatched>>

\* get_rate_limit_status: one critical section, returns the report
RateLimitStatus(now) ==
    LET requests_count == Len(request_times)
        time_since_oldest == now - request_times[1]
    IN [kind |-> "status",
        requests_in_window |-> requests_count,
        capacity |-> requests_per_minute,
        available_slots |-> Max(0, requests_per_minute - requests_count),
        next_request_available_in |->
            IF requests_count >= requests_per_minute /\ time_since_oldest < Window
            THEN Window - time_since_oldest ELSE 0,
        window_start |-> IF requests_count > 0 THEN request_times[1] ELSE -1]

\* a thread starts a call of method o with arguments a
StartCall(t, o, a) ==
    /\ pc[t] = "idle"
    /\ calls' = calls + 1
    /\ op' = [op EXCEPT ![t] = o]
    /\ arg' = [arg EXCEPT ![t] = a]
    /\ attempt' = [attempt EXCEPT ![t] = 0]
    /\ last_error' = [last_error EXCEPT ![t] = None]
    /\ invoked' = [invoked EXCEPT ![t] = << >>]
    /\ slept' = [slept EXCEPT ![t] = << >>]
    /\ analysis' = [analysis EXCEPT ![t] = None]
    /\ oldest_key' = [oldest_key EXCEPT ![t] = {}]

NoArg == [profile |-> << >>, fallback |-> "", valid |-> TRUE]

\* a direct call of _wait_for_rate_limit (the limiter's acquire)
CallAcquire(t) ==
    /\ request_manager
    /\ StartCall(t, "acquire", NoArg)
    /\ pc' = [pc EXCEPT ![t] = "rl_enter"]
    /\ gen_out' = [gen_out EXCEPT ![t] = None]
    /\ looked' = [looked EXCEPT ![t] = "none"]
    /\ prev' = [prev EXCEPT ![t] = -1]
    /\ result' = [result EXCEPT ![t] = None]
    /\ UNCHANGED <<clock, cfgVars, limVars, ctorVars, cacheVars, wake,
                   dispatched>>

CallStatus(t) ==
    /\ request_manager
    /\ lock = 0
    /\ StartCall(t, "status", NoArg)
    /\ result' = [result EXCEPT ![t] = RateLimitStatus(clock)]
    /\ gen_out' = [gen_out EXCEPT ![t] = None]
    /\ looked' = [looked EXCEPT ![t] = "none"]
    /\ prev' = [prev EXCEPT ![t] = -1]
    /\ UNCHANGED <<clock, cfgVars, limVars, ctorVars, cacheVars, pc, wake,
                   dispatched>>

\* reset_rate_limit: clears the deque
CallReset(t) ==
    /\ request_manager
    /\ lock = 0
    /\ StartCall(t, "reset", NoArg)
    /\ request_times' = << >>
    /\ admitted' = << >>
    /\ result' = [result EXCEPT ![t] = None]
    /\ gen_out' = [gen_out EXCEPT ![t] = None]
    /\ looked' = [looked EXCEPT ![t] = "none"]
    /\ prev' = [prev EXCEPT ![t] = -1]
    /\ UNCHANGED <<clock, cfgVars, lock, ctorVars, cacheVars, pc, wake,
                   dispatched>>

\* idle time passes
Tick ==
    /\ clock + TickStep <= MaxTime
    /\ clock' = clock + TickStep
    /\ UNCHANGED <<cfgVars, limVars, ctorVars, cacheVars, callVars, genVars,
                   locVars, pc, wake, slept, result, dispatched>>

\* ----------------------------------------------------- generate: the retries
Raised(e) == [kind |-> "raise", val |-> e]
Returned(v) == [kind |-> "return", val |-> v]

\* the raw replies the service may give, by name
Replies == {"r_full", "r_text"}

Reply(r, n) == [kind |-> "ok", type |-> << >>, text |-> <<r>>, n |-> n]

\* what model.generate_content may do on its n-th invocation within a call:
\* reply, or raise while the behaviour's budget of failures lasts
ServiceOutcomes(n) ==
    {Reply(r, n) : r \in Replies}
        \cup (IF dispatched.errors < MaxFailures
              THEN {ErrQuota(n), ErrFatal(n)} ELSE {})

\* the methods that run generate_full_health_analysis
AnalysisOps == {"analysis", "enhance", "plan", "insights"}

Min(a, b) == IF a <= b THEN a ELSE b

\* The history of external invocations: .errors counts the failures; while
\* all calls of enhance_recommendations, get_personalized_plan and
\* get_health_insights so far passed one profile (.used = 1, .key its hash),
\* .analysis counts their invocations and .analysis_ok the successful ones,
\* both up to 2.  A second profile, or a direct call of
\* generate_full_health_analysis, ends the count (.used = 2).
Counted(d, o, outcome) ==
    LET e == [d EXCEPT !.errors = IF outcome.kind = "ok" THEN @ ELSE @ + 1]
    IN IF o \in AnalysisOps /\ d.used = 1
       THEN [e EXCEPT !.analysis = Min(@ + 1, 2),
                      !.analysis_ok = IF outcome.kind = "ok"
                                      THEN Min(@ + 1, 2) ELSE @]
       ELSE e

\* method o is called with a profile whose hash is key
Used(d, o, key) ==
    IF o # "analysis" /\ d.used = 0 THEN [d EXCEPT !.used = 1, !.key = key]
    ELSE IF o # "analysis" /\ d.used = 1 /\ d.key = key THEN d
    ELSE [d EXCEPT !.used = 2, !.key = {}, !.analysis = 0, !.analysis_ok = 0]

\* (mutant) the prompt is not checked
ValidPromptAny(a) == TRUE

\* `if not prompt or not isinstance(prompt, str)` passes
ValidPrompt(a) == a.valid

\* generate(prompt): the prompt check, then the loop
EnterGenerate(t, a) ==
    /\ pc' = [pc EXCEPT ![t] = IF ValidPrompt(a) THEN "gen_loop" ELSE "gen_done"]
    /\ gen_out' = [gen_out EXCEPT ![t] =
           IF ValidPrompt(a) THEN None ELSE Raised(ErrValue)]

\* the client calls generate(prompt) or generate_with_fallback(prompt, f)
CallGenerate(t, o, a) ==
    /\ request_manager
    /\ o \in {"generate", "fallback"}
    /\ StartCall(t, o, a)
    /\ EnterGenerate(t, a)
    /\ looked' = [looked EXCEPT ![t] = "none"]
    /\ prev' = [prev EXCEPT ![t] = -1]
    /\ result' = [result EXCEPT ![t] = None]
    /\ UNCHANGED <<clock, cfgVars, limVars, ctorVars, cacheVars, wake,
                   dispatched>>

\* (mutant) only the first attempt of a call goes through the limiter
GenLoopAcquireOnce(t) ==
    /\ pc[t] = "gen_loop"
    /\ IF attempt[t] <= max_retries
       THEN /\ pc' = [pc EXCEPT ![t] =
                   IF attempt[t] = 0 THEN "rl_enter" ELSE "dispatch"]
            /\ UNCHANGED gen_out
       ELSE /\ pc' = [pc EXCEPT ![t] = "gen_done"]
            /\ gen_out' = [gen_out EXCEPT ![t] = Raised(ErrRuntime)]
    /\ UNCHANGED <<clock, cfgVars, limVars, ctorVars, cacheVars, callVars,
                   attempt, last_error, invoked, locVars, wake, slept, result,
                   dispatched>>

\* while attempt <= self.max_retries; falling out of the loop raises RuntimeError
GenLoop(t) ==
    /\ pc[t] = "gen_loop"
    /\ IF attempt[t] <= max_retries
       THEN /\ pc' = [pc EXCEPT ![t] = "rl_enter"]
            /\ UNCHANGED gen_out
       ELSE /\ pc' = [pc EXCEPT ![t] = "gen_done"]
            /\ gen_out' = [gen_out EXCEPT ![t] = Raised(ErrRuntime)]
    /\ UNCHANGED <<clock, cfgVars, limVars, ctorVars, cacheVars, callVars,
                   attempt, last_error, invoked, locVars, wake, slept, result,
                   dispatched>>

\* (mutant) no error is retried
OnErrorNoRetry(error, attempts_made) == "raise"

\* (mutant) the retries are counted one short
OnErrorOneShort(error, attempts_made) ==
    IF IsQuotaError(error)
    THEN IF attempts_made < max_retries THEN "retry" ELSE "raise"
    ELSE "raise"

\* (mutant) every error is retried, quota error or not
OnErrorRetryAll(error, attempts_made) ==
    IF attempts_made <= max_retries THEN "retry" ELSE "raise"

\* the except clause: what generate does with the error of one attempt
\* ("retry": sleep and go round again; "raise": re-raise that error)
OnError(error, attempts_made) ==
    IF IsQuotaError(error)
    THEN IF attempts_made <= max_retries THEN "retry" ELSE "raise"
    ELSE "raise"

\* self.model.generate_content(prompt) returns or raises; no lock is held
Dispatch(t, outcome) ==
    /\ pc[t] = "dispatch"
    /\ invoked' = [invoked EXCEPT ![t] = Append(@, outcome)]
    /\ dispatched' = Counted(dispatched, op[t], outcome)
    /\ IF outcome.kind = "ok"
       THEN /\ gen_out' = [gen_out EXCEPT ![t] = Returned(outcome.text[1])]
            /\ pc' = [pc EXCEPT ![t] = "gen_done"]
            /\ UNCHANGED <<last_error, attempt, wake, slept>>
       ELSE /\ last_error' = [last_error EXCEPT ![t] = outcome]
            /\ attempt' = [attempt EXCEPT ![t] = @ + 1]
            /\ IF OnError(outcome, attempt[t] + 1) = "retry"
               THEN /\ pc' = [pc EXCEPT ![t] = "backoff"]
                    /\ wake' = [wake EXCEPT ![t] = clock + retry_wait_seconds]
                    /\ slept' = [slept EXCEPT ![t] =
                           Append(@, <<"backoff", retry_wait_seconds>>)]
                    /\ UNCHANGED gen_out
               ELSE /\ pc' = [pc EXCEPT ![t] = "gen_done"]
                    /\ gen_out' = [gen_out EXCEPT ![t] = Raised(outcome)]
                    /\ UNCHANGED <<wake, slept>>
    /\ UNCHANGED <<clock, cfgVars, limVars, ctorVars, cacheVars, callVars,
                   locVars, result>>

\* the end of time.sleep(self.retry_wait_seconds); `continue`
BackoffWake(t) ==
    /\ pc[t] = "backoff"
    /\ clock' = Max(clock, wake[t])
    /\ wake' = [wake EXCEPT ![t] = 0]
    /\ pc' = [pc EXCEPT ![t] = "gen_loop"]
    /\ UNCHANGED <<cfgVars, limVars, ctorVars, cacheVars, callVars, genVars,
                   locVars, slept, result, dispatched>>

\* generate() called by the client itself returns or raises to it
GenerateReturn(t) ==
    /\ pc[t] = "gen_done"
    /\ op[t] = "generate"
    /\ result' = [result EXCEPT ![t] = gen_out[t]]
    /\ pc' = [pc EXCEPT ![t] = "idle"]
    /\ UNCHANGED <<clock, cfgVars, limVars, ctorVars, cacheVars, callVars,
                   genVars, locVars, wake, slept, dispatched>>

\* fallback_response values given by callers of generate_with_fallback
Fallbacks == {"", "fallback"}

\* generate_with_fallback: generate's text; on any exception the fallback if
\* it is truthy, else a message naming the exception's type
FallbackResult(out, fallback_response) ==
    IF out.kind = "return" THEN out.val
    ELSE IF fallback_response # "" THEN fallback_response
    ELSE "Error: Unable to generate response"

\* generate_with_fallback() called by the client itself returns to it
FallbackReturn(t) ==
    /\ pc[t] = "gen_done"
    /\ op[t] = "fallback"
    /\ result' = [result EXCEPT ![t] =
           Returned(FallbackResult(gen_out[t], arg[t].fallback))]
    /\ pc' = [pc EXCEPT ![t] = "idle"]
    /\ UNCHANGED <<clock, cfgVars, limVars, ctorVars, cacheVars, callVars,
                   genVars, locVars, wake, slept, dispatched>>

\* ---------------------------------------------------------------- parsing
\* A string is a sequence of words, the word " " being white space that
\* strip() removes; a text is a sequence of such lines, joined by "\n".
RECURSIVE LStrip(_)
LStrip(s) == IF s # << >> /\ Head(s) = " " THEN LStrip(Tail(s)) ELSE s

RECURSIVE RStrip(_)
RStrip(s) ==
    IF s # << >> /\ s[Len(s)] = " " THEN RStrip(SubSeq(s, 1, Len(s) - 1)) ELSE s

\* str.strip()
Strip(s) == RStrip(LStrip(s))

\* a line that strip() empties
Blank(line) == Strip(line) = << >>

RECURSIVE DropBlankHead(_)
DropBlankHead(text) ==
    IF text # << >> /\ Blank(Head(text)) THEN DropBlankHead(Tail(text)) ELSE text

RECURSIVE DropBlankLast(_)
DropBlankLast(text) ==
    IF text # << >> /\ Blank(text[Len(text)])
    THEN DropBlankLast(SubSeq(text, 1, Len(text) - 1))
    ELSE text

\* str.strip() of a text of several lines: the blank lines at both ends go,
\* then the white space before the first line and after the last
StripText(text) ==
    LET inner == DropBlankLast(DropBlankHead(text))
    IN IF inner = << >> THEN << >>
       ELSE IF Len(inner) = 1 THEN <<Strip(inner[1])>>
       ELSE <<LStrip(inner[1])>>
            \o SubSeq(inner, 2, Len(inner) - 1)
            \o <<RStrip(inner[Len(inner)])>>

\* the words that start with the three backquotes of a code fence, by name
FenceWords == {"(fence)", "(fence)json"}

\* clean_response.startswith(fence)
StartsWithFence(text) ==
    text # << >> /\ text[1] # << >> /\ text[1][1] \in FenceWords

\* clean_response.endswith(fence)
EndsWithFence(text) ==
    /\ text # << >>
    /\ text[Len(text)] # << >>
    /\ text[Len(text)][Len(text[Len(text)])] = "(fence)"

\* clean_response.split("\n", 1)[1] if "\n" in clean_response
DropFirstLine(text) == IF Len(text) > 1 THEN Tail(text) ELSE text

\* clean_response.rsplit("\n", 1)[0] if "\n" in clean_response
DropLastLine(text) ==
    IF Len(text) > 1 THEN SubSeq(text, 1, Len(text) - 1) ELSE text

\* the text that json.loads is given
CleanResponse(text) ==
    LET clean_response == StripText(text)
    IN IF StartsWithFence(clean_response)
       THEN LET opened == DropFirstLine(clean_response)
            IN StripText(IF EndsWithFence(opened)
                         THEN DropLastLine(opened) ELSE opened)
       ELSE clean_response

EmptySections ==
    [sleep |-> << >>, diet |-> << >>, fitness |-> << >>, wellness |-> << >>,
     personalized_plan |-> << >>, health_insights |-> << >>]

ListFields == {"sleep", "diet", "fitness", "wellness"}
TextFields == {"personalized_plan", "health_insights"}

\* A JSON value is its type followed by its content: <<"str", words...>>,
\* <<"num", digits>>, <<"null">>, <<"true">>, <<"false">>.
JStr(words) == <<"str">> \o words
JNum(digits) == <<"num", digits>>
JNull == <<"null">>

\* `if item`
Truthy(item) ==
    IF item[1] = "str" THEN Len(item) > 1
    ELSE IF item[1] = "num" THEN item[2] # "0"
    ELSE item[1] = "true"

\* str(item)
Str(item) ==
    IF item[1] \in {"str", "num"} THEN Tail(item)
    ELSE IF item[1] = "null" THEN <<"None">>
    ELSE IF item[1] = "true" THEN <<"True">>
    ELSE <<"False">>

\* [str(item).strip() for item in parsed_json[key] if item]
RECURSIVE CleanItems(_)
CleanItems(items) ==
    IF items = << >> THEN << >>
    ELSE IF ~Truthy(Head(items)) THEN CleanItems(Tail(items))
    ELSE <<Strip(Str(Head(items)))>> \o CleanItems(Tail(items))

\* one key of the parsed JSON object, as the strict path reads it
JsonField(obj, key) ==
    IF key \in ListFields
    THEN IF obj[key].present /\ obj[key].is_list
         THEN CleanItems(obj[key].val) ELSE << >>
    ELSE IF obj[key].present THEN Strip(Str(obj[key].val)) ELSE << >>

\* the bullet, "-" and the five emoji of startswith, by name
BulletMarkers == {"(bullet)", "-", "(moon)", "(zzz)", "(salad)", "(muscle)", "(brain)"}

\* str.lower(), word by word
LowerWord(w) ==
    CASE w = "SLEEP" -> "sleep"
      [] w = "Nutrition" -> "nutrition"
      [] w = "FITNESS" -> "fitness"
      [] w = "Mental" -> "mental"
      [] w = "30-DAY" -> "30-day"
      [] w = "Key" -> "key"
      [] w = "Health" -> "health"
      [] w = "Insights" -> "insights"
      [] w = "Quota" -> "quota"
      [] w = "Resource" -> "resource"
      [] w = "ResourceExhausted" -> "resourceexhausted"
      [] w = "ValueError" -> "valueerror"
      [] OTHER -> w

Lower(line) == [i \in 1..Len(line) |-> LowerWord(line[i])]

\* the keywords that are substrings of a word
WordParts(w) == IF w = "insights" THEN {"insight", "insights"} ELSE {w}

\* `word in line` for a keyword of one word
HasWord(line, words) ==
    \E i \in 1..Len(line) : WordParts(line[i]) \cap words # {}

\* `"a b" in line` for a keyword of two words
HasPhrase(line, a, b) ==
    \E i \in 1..(Len(line) - 1) : line[i] = a /\ line[i + 1] = b

\* the section a "###" line names, "" when it names none
HeaderSection(line) ==
    LET low == Lower(line)
    IN IF HasWord(low, {"sleep"}) THEN "sleep"
       ELSE IF HasWord(low, {"diet", "nutrition"}) THEN "diet"
       ELSE IF HasWord(low, {"fitness", "exercise"}) THEN "fitness"
       ELSE IF HasWord(low, {"wellness", "mental"}) THEN "wellness"
       ELSE IF HasWord(low, {"personalized", "30-day"}) THEN "personalized_plan"
       ELSE IF HasWord(low, {"insight"}) \/ HasPhrase(low, "key", "health")
       THEN "health_insights"
       ELSE ""

\* (mutant) bullet lines are not collected
AddLineNoBullets(sections, current, line) ==
    IF current = "" THEN sections
    ELSE IF Head(line) \in BulletMarkers THEN sections
    ELSE IF current \in TextFields
    THEN [sections EXCEPT ![current] =
              IF @ # << >> THEN @ \o <<" ">> \o line ELSE line]
    ELSE sections

\* one line of content under the current section
AddLine(sections, current, line) ==
    IF current = "" THEN sections
    ELSE IF Head(line) \in BulletMarkers
    THEN IF current \in ListFields
         THEN [sections EXCEPT ![current] = Append(@, line)]
         ELSE sections
    ELSE IF current \in TextFields
    THEN [sections EXCEPT ![current] =
              IF @ # << >> THEN @ \o <<" ">> \o line ELSE line]
    ELSE sections

\* _parse_fallback_response: the loop over the lines, from line i on
RECURSIVE FallbackLoop(_, _, _, _)
FallbackLoop(lines, i, current, sections) ==
    IF i > Len(lines) THEN sections
    ELSE LET line_stripped == Strip(lines[i])
             is_header_line == line_stripped # << >> /\ Head(line_stripped) = "###"
             named == IF is_header_line THEN HeaderSection(line_stripped) ELSE ""
         IN IF line_stripped = << >>
            THEN FallbackLoop(lines, i + 1, current, sections)
            ELSE IF named # ""
            THEN FallbackLoop(lines, i + 1, named, sections)
            ELSE FallbackLoop(lines, i + 1, current,
                              AddLine(sections, current, line_stripped))

ParseFallbackResponse(lines, sections) ==
    LET got == FallbackLoop(lines, 1, "", sections)
    IN [got EXCEPT !.personalized_plan = Strip(@), !.health_insights = Strip(@)]

\* _parse_unified_response on a reply: raw.json says whether json.loads takes
\* the text (code fence removed), raw.is_dict whether it gives an object
ParseUnifiedResponse(raw) ==
    IF raw.json
    THEN IF raw.is_dict
         THEN [key \in ListFields \cup TextFields |-> JsonField(raw.obj, key)]
         ELSE EmptySections
    ELSE ParseFallbackResponse(raw.lines, EmptySections)

JList(items) == [present |-> TRUE, is_list |-> TRUE, val |-> items]
JText(text) == [present |-> TRUE, is_list |-> FALSE, val |-> text]
JAbsent == [present |-> FALSE, is_list |-> FALSE, val |-> JNull]

NoObject == [key \in ListFields \cup TextFields |-> JAbsent]

\* the JSON documents of the replies, each written as one word
JsonObjects == {"{full}", "{blank}", "{odd}", "{}"}
JsonDocuments == JsonObjects \cup {"[list]"}

\* what json.loads makes of a document
JsonValue(doc) ==
    IF doc = "{full}"
    THEN [sleep |-> JList(<< JStr(<<"(zzz)", "sleep", "early">>), JStr(<< >>),
                             JStr(<<" ", "no", "screens">>) >>),
          diet |-> JList(<< JStr(<<"(salad)", "greens">>) >>),
          fitness |-> JList(<< JStr(<<"(muscle)", "walk">>) >>),
          wellness |-> JList(<< JStr(<<"(brain)", "breathe">>) >>),
          personalized_plan |-> JText(JStr(<<" ", "week", "1", " ">>)),
          health_insights |-> JText(JStr(<<"insight">>))]
    ELSE IF doc = "{blank}"
    THEN [sleep |-> JList(<< JStr(<<"rest">>), JStr(<<" ">>),
                             JStr(<<"nap">>) >>),
          diet |-> JList(<< >>),
          fitness |-> JList(<< JStr(<<"walk">>) >>),
          wellness |-> JList(<< JStr(<<"breathe">>) >>),
          personalized_plan |-> JText(JStr(<<"week", "1">>)),
          health_insights |-> JText(JStr(<<" ">>))]
    ELSE IF doc = "{odd}"
    THEN [sleep |-> JList(<< JNum("8"), JNull, JNum("0"), <<"true">>,
                             <<"false">>, JStr(<<"rest", " ">>) >>),
          diet |-> JText(JStr(<<"greens">>)),
          fitness |-> JAbsent,
          wellness |-> JList(<< JNull >>),
          personalized_plan |-> JText(JNull),
          health_insights |-> JText(JNum("7"))]
    ELSE NoObject

\* json.loads(clean_response) succeeds
IsJson(clean_response) ==
    /\ Len(clean_response) = 1
    /\ Len(clean_response[1]) = 1
    /\ clean_response[1][1] \in JsonDocuments

\* the try block up to isinstance: the text cleaned and loaded
Decode(text) ==
    LET clean_response == CleanResponse(text)
    IN IF IsJson(clean_response)
       THEN [json |-> TRUE,
             is_dict |-> clean_response[1][1] \in JsonObjects,
             lines |-> text,
             obj |-> JsonValue(clean_response[1][1])]
       ELSE [json |-> FALSE, is_dict |-> FALSE, lines |-> text,
             obj |-> NoObject]

ErrJson == [kind |-> "error", type |-> <<"jsondecodeerror">>,
            text |-> <<"expecting", "value">>, n |-> 0]

\* (mutant) the JSONDecodeError of json.loads reaches the caller
ParseUncaught(text) ==
    IF Decode(text).json
    THEN [kind |-> "return", val |-> ParseUnifiedResponse(Decode(text))]
    ELSE [kind |-> "raise", val |-> ErrJson]

\* a call of _parse_unified_response(text), as its caller sees it
ParseCall(text) ==
    [kind |-> "return", val |-> ParseUnifiedResponse(Decode(text))]

\* the texts behind the replies' names
ReplyText(r) ==
    IF r = "r_full"
    THEN << <<"(fence)json">>, <<"{full}">>, <<"(fence)">> >>
    ELSE << <<"sorry", "no", "json">>, <<"###", "sleep">>, <<"-", "rest">> >>

RawText(r) == Decode(ReplyText(r))

\* ------------------------------------------------------------- the advisor
\* A profile is a dict: its items in insertion order.
Profiles ==
    { << <<"age", 30>>, <<"bmi", 22>> >>,
      << <<"bmi", 22>>, <<"age", 30>> >>,
      << <<"age", 31>>, <<"bmi", 22>> >>,
      << <<"age", 30>>, <<"bmi", 25>> >>,
      << <<"age", 31>> >> }

\* _profile_to_hash: json.dumps(profile, sort_keys=True) is fixed by the set
\* of the profile's items; md5 is taken to be injective on these texts
ProfileToHash(profile) == {profile[i] : i \in 1..Len(profile)}

\* the recommendations mapping a caller hands to enhance_recommendations
StandardRecs ==
    [sleep |-> << <<"std", "sleep">> >>, diet |-> << <<"std", "diet">> >>,
     exercise |-> << <<"std", "exercise">> >>, mental_wellness |-> << >>]

\* the dict generate_full_health_analysis returns when disabled
DisabledAnalysis ==
    [sleep |-> << >>, diet |-> << >>, fitness |-> << >>, wellness |-> << >>,
     personalized_plan |-> <<"AI enhancements disabled.">>,
     health_insights |-> << >>, api_calls_made |-> 0,
     cache_hit |-> "absent", error |-> "absent"]

\* the dict its except clause returns
ErrorAnalysis(e) ==
    [sleep |-> << >>, diet |-> << >>, fitness |-> << >>, wellness |-> << >>,
     personalized_plan |-> <<"Error generating personalized plan.">>,
     health_insights |-> << >>, api_calls_made |-> 0,
     cache_hit |-> "absent", error |-> "set"]

\* (mutant) the metadata says that no call was made
WithMetadataZero(sections) ==
    [sleep |-> sections.sleep, diet |-> sections.diet,
     fitness |-> sections.fitness, wellness |-> sections.wellness,
     personalized_plan |-> sections.personalized_plan,
     health_insights |-> sections.health_insights, api_calls_made |-> 0,
     cache_hit |-> "False", error |-> "absent"]

\* the parsed reply with the metadata added (from_cache goes with cache_hit;
\* the timestamp string, which nothing reads, is left out)
WithMetadata(sections) ==
    [sleep |-> sections.sleep, diet |-> sections.diet,
     fitness |-> sections.fitness, wellness |-> sections.wellness,
     personalized_plan |-> sections.personalized_plan,
     health_insights |-> sections.health_insights, api_calls_made |-> 1,
     cache_hit |-> "False", error |-> "absent"]

\* result = self._analysis_cache[profile_hash].copy() with the two flags set
HitCopy(entry) == [entry EXCEPT !.cache_hit = "True"]

\* (mutant) the lookup never finds the key
CacheHasNever(cache, key) == FALSE

\* profile_hash in self._analysis_cache
CacheHas(cache, key) == \E i \in 1..Len(cache) : cache[i].key = key

\* self._analysis_cache[key]
CacheGet(cache, key) ==
    cache[CHOOSE i \in 1..Len(cache) : cache[i].key = key].value

\* (mutant) the result is not stored
CacheSetDropped(cache, key, value) == cache

\* (mutant) every store adds an entry, also for a key that is present
CacheSetAppend(cache, key, value) ==
    Append(cache, [key |-> key, value |-> value])

\* self._analysis_cache[key] = value: a new key goes last, an old one keeps
\* its place
CacheSet(cache, key, value) ==
    IF CacheHas(cache, key)
    THEN [i \in 1..Len(cache) |->
              IF cache[i].key = key THEN [key |-> key, value |-> value]
              ELSE cache[i]]
    ELSE Append(cache, [key |-> key, value |-> value])

\* (mutant) the newest key is taken for eviction
NewestKey(cache) == cache[Len(cache)].key

\* next(iter(self._analysis_cache))
OldestKey(cache) == cache[1].key

\* del self._analysis_cache[key]
CacheDel(cache, key) ==
    LET keep == {i \in 1..Len(cache) : cache[i].key # key}
        F[i \in 0..Len(cache)] ==
            IF i = 0 THEN << >>
            ELSE IF i \in keep THEN Append(F[i - 1], cache[i]) ELSE F[i - 1]
    IN F[Len(cache)]

\* the history of a store: it keeps one key more than the cache may hold
RememberKey(h, key) ==
    LET e == [key |-> key, hit |-> FALSE]
    IN IF Len(h) >= CacheMaxSize + 1 THEN Append(Tail(h), e) ELSE Append(h, e)

\* the history of a cache hit on key
RememberHit(h, key) ==
    [i \in 1..Len(h) |-> IF h[i].key = key THEN [h[i] EXCEPT !.hit = TRUE]
                         ELSE h[i]]

\* (mutant) the guard is never taken
DisabledNever == FALSE

\* `if not self.enabled or not self.request_manager`
Disabled == ~enabled \/ ~request_manager

\* enhance_recommendations: the merge of an analysis into the recommendations
Enhanced(recommendations, a) ==
    IF a.api_calls_made = 0 THEN recommendations
    ELSE [sleep |-> IF a.sleep # << >> THEN a.sleep \o recommendations.sleep
                    ELSE recommendations.sleep,
          diet |-> IF a.diet # << >> THEN a.diet \o recommendations.diet
                   ELSE recommendations.diet,
          exercise |-> IF a.fitness # << >>
                       THEN a.fitness \o recommendations.exercise
                       ELSE recommendations.exercise,
          mental_wellness |-> IF a.wellness # << >> THEN a.wellness
                              ELSE recommendations.mental_wellness]

\* what method o makes of the dict generate_full_health_analysis returned
AccessorResult(o, a) ==
    IF o = "enhance" THEN Returned(Enhanced(StandardRecs, a))
    ELSE IF o = "plan"
    THEN Returned(IF a.personalized_plan # << >> THEN a.personalized_plan
                  ELSE <<"Unable to generate personalized plan. Using standard recommendations.">>)
    ELSE IF o = "insights" THEN Returned(a.health_insights)
    ELSE Returned(a)

\* what method o returns at once when the advisor is disabled
DisabledResult(o) ==
    IF o = "enhance" THEN Returned(StandardRecs)
    ELSE IF o = "plan"
    THEN Returned(<<"AI enhancements disabled. Using standard recommendations.">>)
    ELSE IF o = "insights" THEN Returned(<< >>)
    ELSE IF o = "motivation" THEN Returned("Keep up your goals!")
    ELSE Returned(DisabledAnalysis)

\* what method o makes of an exception that leaves
\* generate_full_health_analysis (its own except clause)
AccessorExcept(o, e) ==
    IF o = "enhance" THEN Returned(StandardRecs)
    ELSE IF o = "plan"
    THEN Returned(<<"Unable to generate AI plan. Please use standard recommendations.">>)
    ELSE IF o = "insights" THEN Returned(<< >>)
    ELSE Raised(e)

ErrKey == [kind |-> "error", type |-> <<"keyerror">>, text |-> << >>, n |-> 0]

\* GeminiHealthAdvisor(): reads the environment; with the flag on and a key,
\* configures the library (which may raise) and goes on to probe the models
Construct(api_key, flag, configured) ==
    /\ ctor = "new"
    /\ model' = 0
    /\ request_manager' = FALSE
    /\ initialization_error' = FALSE
    /\ analysis_cache' = << >>
    /\ candidate' = 1
    /\ IF flag /\ api_key /\ configured
       THEN enabled' = TRUE /\ ctor' = "probing"
       ELSE enabled' = FALSE /\ ctor' = "done"
    /\ UNCHANGED <<clock, cfgVars, limVars, probed, inserted, callVars,
                   genVars, locVars, pc, wake, slept, result, dispatched>>

\* the quota test of __init__: "429" in error_msg or "quota" in its lower case
InitQuotaError(e) == Contains(e.text, <<"429">>) \/ Contains(e.text, <<"quota">>)

\* (mutant) the loop has no `return`: it goes on after a success
ProbeNoReturn(outcome) ==
    /\ ctor = "probing"
    /\ probed' = Append(probed, <<candidate, outcome.kind>>)
    /\ IF outcome.kind = "ok"
       THEN /\ model' = candidate
            /\ request_manager' = TRUE
            /\ requests_per_minute' = MaxRpm
            /\ max_retries' = MaxRetries
            /\ retry_wait_seconds' = RetryWaitSeconds
            /\ request_times' = << >>
            /\ lock' = 0
            /\ UNCHANGED <<enabled, initialization_error>>
       ELSE /\ initialization_error' =
                   (initialization_error \/ InitQuotaError(outcome))
            /\ UNCHANGED <<model, request_manager, cfgVars, request_times,
                           lock, enabled>>
    /\ IF candidate < NumModels
       THEN candidate' = candidate + 1 /\ UNCHANGED ctor
       ELSE ctor' = "done" /\ UNCHANGED candidate
    /\ dispatched' = [dispatched EXCEPT
                          !.errors = IF outcome.kind = "ok" THEN @ ELSE @ + 1]
    /\ UNCHANGED <<clock, admitted, cacheVars, callVars, genVars, locVars, pc,
                   wake, slept, result>>

\* (mutant) the advisor stays enabled when every candidate failed
ProbeKeepsEnabled(outcome) ==
    /\ ctor = "probing"
    /\ probed' = Append(probed, <<candidate, outcome.kind>>)
    /\ IF outcome.kind = "ok"
       THEN /\ model' = candidate
            /\ request_manager' = TRUE
            /\ requests_per_minute' = MaxRpm
            /\ max_retries' = MaxRetries
            /\ retry_wait_seconds' = RetryWaitSeconds
            /\ request_times' = << >>
            /\ lock' = 0
            /\ ctor' = "done"
            /\ UNCHANGED <<enabled, initialization_error, candidate>>
       ELSE /\ initialization_error' =
                   (initialization_error \/ InitQuotaError(outcome))
            /\ IF candidate < NumModels
               THEN candidate' = candidate + 1 /\ UNCHANGED <<enabled, ctor>>
               ELSE ctor' = "done" /\ UNCHANGED <<enabled, candidate>>
            /\ UNCHANGED <<model, request_manager, cfgVars, request_times, lock>>
    /\ dispatched' = [dispatched EXCEPT
                          !.errors = IF outcome.kind = "ok" THEN @ ELSE @ + 1]
    /\ UNCHANGED <<clock, admitted, cacheVars, callVars, genVars, locVars, pc,
                   wake, slept, result>>

\* one round of `for model_name in PREFERRED_MODELS`: the test request to the
\* candidate, sent directly; on success the request manager is made and
\* __init__ returns, on failure the loop goes on and ends disabled
Probe(outcome) ==
    /\ ctor = "probing"
    /\ probed' = Append(probed, <<candidate, outcome.kind>>)
    /\ IF outcome.kind = "ok"
       THEN /\ model' = candidate
            /\ request_manager' = TRUE
            /\ requests_per_minute' = MaxRpm
            /\ max_retries' = MaxRetries
            /\ retry_wait_seconds' = RetryWaitSeconds
            /\ request_times' = << >>
            /\ lock' = 0
            /\ ctor' = "done"
            /\ UNCHANGED <<enabled, initialization_error, candidate>>
       ELSE /\ initialization_error' =
                   (initialization_error \/ InitQuotaError(outcome))
            /\ IF candidate < NumModels
               THEN candidate' = candidate + 1 /\ UNCHANGED <<enabled, ctor>>
               ELSE enabled' = FALSE /\ ctor' = "done" /\ UNCHANGED candidate
            /\ UNCHANGED <<model, request_manager, cfgVars, request_times, lock>>
    /\ dispatched' = [dispatched EXCEPT
                          !.errors = IF outcome.kind = "ok" THEN @ ELSE @ + 1]
    /\ UNCHANGED <<clock, admitted, cacheVars, callVars, genVars, locVars, pc,
                   wake, slept, result>>

\* the call (o, p) that thread t starts follows a generate_full_health_analysis
\* call of t for the same profile hash that missed the cache, whose
\* invocations all succeeded: the invocations that call made, else -1
Sequel(t, o, p) ==
    IF /\ o = "analysis"
       /\ op[t] = "analysis"
       /\ looked[t] = "miss"
       /\ ProfileToHash(arg[t].profile) = ProfileToHash(p)
       /\ \A i \in 1..Len(invoked[t]) : invoked[t][i].kind = "ok"
    THEN Len(invoked[t])
    ELSE -1

ProfileArg(p) == [profile |-> p, fallback |-> "", valid |-> TRUE]

\* the guard at the head of method o
AccessorDisabled(o) == IF o = "enhance" THEN ~enabled ELSE Disabled

\* generate_full_health_analysis(profile), called directly (o = "analysis") or
\* by enhance_recommendations, get_personalized_plan or get_health_insights:
\* the guards, the hash and the cache lookup
CallAnalysis(t, o, p) ==
    /\ ctor = "done"
    /\ o \in AnalysisOps
    /\ StartCall(t, o, ProfileArg(p))
    /\ IF AccessorDisabled(o)
       THEN /\ result' = [result EXCEPT ![t] = DisabledResult(o)]
            /\ looked' = [looked EXCEPT ![t] = "none"]
            /\ prev' = [prev EXCEPT ![t] = -1]
            /\ UNCHANGED <<pc, gen_out, dispatched>>
       ELSE IF Disabled
       THEN /\ result' = [result EXCEPT ![t] = AccessorResult(o, DisabledAnalysis)]
            /\ looked' = [looked EXCEPT ![t] = "none"]
            /\ prev' = [prev EXCEPT ![t] = -1]
            /\ UNCHANGED <<pc, gen_out, dispatched>>
       ELSE /\ result' = [result EXCEPT ![t] = None]
            /\ dispatched' = Used(dispatched, o, ProfileToHash(p))
            /\ IF CacheHas(analysis_cache, ProfileToHash(p))
               THEN /\ looked' = [looked EXCEPT ![t] = "hit"]
                    /\ prev' = [prev EXCEPT ![t] = Sequel(t, o, p)]
                    /\ pc' = [pc EXCEPT ![t] = "cache_read"]
                    /\ UNCHANGED gen_out
               ELSE /\ looked' = [looked EXCEPT ![t] = "miss"]
                    /\ prev' = [prev EXCEPT ![t] = Sequel(t, o, p)]
                    /\ EnterGenerate(t, ProfileArg(p))
    /\ UNCHANGED <<clock, cfgVars, limVars, ctorVars, cacheVars, wake>>

\* the cache hit: the stored dict is copied and flagged (outside the try)
CacheRead(t) ==
    /\ pc[t] = "cache_read"
    /\ LET key == ProfileToHash(arg[t].profile)
       IN result' = [result EXCEPT ![t] =
              IF CacheHas(analysis_cache, key)
              THEN AccessorResult(op[t], HitCopy(CacheGet(analysis_cache, key)))
              ELSE AccessorExcept(op[t], ErrKey)]
    /\ inserted' = RememberHit(inserted, ProfileToHash(arg[t].profile))
    /\ pc' = [pc EXCEPT ![t] = "idle"]
    /\ UNCHANGED <<clock, cfgVars, limVars, ctorVars, analysis_cache, callVars,
                   genVars, locVars, wake, slept, dispatched>>

\* generate returned: parse, add the metadata, store a copy in the cache
AnalysisStore(t) ==
    /\ pc[t] = "gen_done"
    /\ op[t] \in AnalysisOps
    /\ gen_out[t].kind = "return"
    /\ LET a == WithMetadata(ParseUnifiedResponse(RawText(gen_out[t].val)))
           key == ProfileToHash(arg[t].profile)
       IN /\ analysis' = [analysis EXCEPT ![t] = a]
          /\ analysis_cache' = CacheSet(analysis_cache, key, a)
          /\ inserted' = RememberKey(inserted, key)
    /\ pc' = [pc EXCEPT ![t] = "trim"]
    /\ UNCHANGED <<clock, cfgVars, limVars, ctorVars, callVars, genVars,
                   oldest_key, looked, prev, wake, slept, result, dispatched>>

\* `if len(self._analysis_cache) > self._cache_max_size`, and the oldest key
AnalysisTrim(t) ==
    /\ pc[t] = "trim"
    /\ IF Len(analysis_cache) > CacheMaxSize
       THEN /\ oldest_key' = [oldest_key EXCEPT ![t] = OldestKey(analysis_cache)]
            /\ pc' = [pc EXCEPT ![t] = "del"]
            /\ UNCHANGED result
       ELSE /\ result' = [result EXCEPT ![t] = AccessorResult(op[t], analysis[t])]
            /\ pc' = [pc EXCEPT ![t] = "idle"]
            /\ UNCHANGED oldest_key
    /\ UNCHANGED <<clock, cfgVars, limVars, ctorVars, cacheVars, callVars,
                   genVars, analysis, looked, prev, wake, slept,
                   dispatched>>

\* (mutant) the trim deletes nothing
AnalysisDelSkipped(t) ==
    /\ pc[t] = "del"
    /\ result' = [result EXCEPT ![t] = AccessorResult(op[t], analysis[t])]
    /\ pc' = [pc EXCEPT ![t] = "idle"]
    /\ UNCHANGED <<clock, cfgVars, limVars, ctorVars, cacheVars, callVars,
                   genVars, locVars, wake, slept, dispatched>>

\* `del self._analysis_cache[oldest_key]`; a missing key raises KeyError into
\* the except clause of generate_full_health_analysis
AnalysisDel(t) ==
    /\ pc[t] = "del"
    /\ IF CacheHas(analysis_cache, oldest_key[t])
       THEN /\ analysis_cache' = CacheDel(analysis_cache, oldest_key[t])
            /\ result' = [result EXCEPT ![t] = AccessorResult(op[t], analysis[t])]
       ELSE /\ result' = [result EXCEPT ![t] =
                   AccessorResult(op[t], ErrorAnalysis(ErrKey))]
            /\ UNCHANGED analysis_cache
    /\ pc' = [pc EXCEPT ![t] = "idle"]
    /\ UNCHANGED <<clock, cfgVars, limVars, ctorVars, inserted, callVars,
                   genVars, locVars, wake, slept, dispatched>>

\* (mutant) the error dict is stored in the cache like a result
AnalysisFailStored(t) ==
    /\ pc[t] = "gen_done"
    /\ op[t] \in AnalysisOps
    /\ gen_out[t].kind = "raise"
    /\ result' = [result EXCEPT ![t] =
           AccessorResult(op[t], ErrorAnalysis(gen_out[t].val))]
    /\ analysis_cache' = CacheSet(analysis_cache,
                                  ProfileToHash(arg[t].profile),
                                  ErrorAnalysis(gen_out[t].val))
    /\ pc' = [pc EXCEPT ![t] = "idle"]
    /\ UNCHANGED <<clock, cfgVars, limVars, ctorVars, inserted, callVars,
                   genVars, locVars, wake, slept, dispatched>>

\* generate raised: the except clause returns the error dict, nothing is stored
AnalysisFail(t) ==
    /\ pc[t] = "gen_done"
    /\ op[t] \in AnalysisOps
    /\ gen_out[t].kind = "raise"
    /\ result' = [result EXCEPT ![t] =
           AccessorResult(op[t], ErrorAnalysis(gen_out[t].val))]
    /\ pc' = [pc EXCEPT ![t] = "idle"]
    /\ UNCHANGED <<clock, cfgVars, limVars, ctorVars, cacheVars, callVars,
                   genVars, locVars, wake, slept, dispatched>>

\* the fallback text get_motivation_message hands to generate_with_fallback
MotivationFallback == "Keep pushing towards your goals!"

\* (mutant) the guard is inverted: an enabled advisor answers at once
MotivationCanned(t) ==
    /\ ctor = "done"
    /\ StartCall(t, "motivation", [NoArg EXCEPT !.fallback = MotivationFallback])
    /\ looked' = [looked EXCEPT ![t] = "none"]
    /\ prev' = [prev EXCEPT ![t] = -1]
    /\ result' = [result EXCEPT ![t] = Returned("Keep up your goals!")]
    /\ UNCHANGED <<clock, cfgVars, limVars, ctorVars, cacheVars, wake,
                   dispatched, pc, gen_out>>

\* get_motivation_message(category): the guard, then its own prompt goes to
\* request_manager.generate_with_fallback
CallMotivation(t) ==
    /\ ctor = "done"
    /\ StartCall(t, "motivation", [NoArg EXCEPT !.fallback = MotivationFallback])
    /\ looked' = [looked EXCEPT ![t] = "none"]
    /\ prev' = [prev EXCEPT ![t] = -1]
    /\ IF Disabled
       THEN /\ result' = [result EXCEPT ![t] = DisabledResult("motivation")]
            /\ UNCHANGED <<pc, gen_out>>
       ELSE /\ result' = [result EXCEPT ![t] = None]
            /\ EnterGenerate(t, NoArg)
    /\ UNCHANGED <<clock, cfgVars, limVars, ctorVars, cacheVars, wake,
                   dispatched>>

\* generate_with_fallback returned inside get_motivation_message
MotivationReturn(t) ==
    /\ pc[t] = "gen_done"
    /\ op[t] = "motivation"
    /\ result' = [result EXCEPT ![t] =
           Returned(FallbackResult(gen_out[t], arg[t].fallback))]
    /\ pc' = [pc EXCEPT ![t] = "idle"]
    /\ UNCHANGED <<clock, cfgVars, limVars, ctorVars, cacheVars, callVars,
                   genVars, locVars, wake, slept, dispatched>>

\* ------------------------------------------------------ the specifications
NoDispatches == [errors |-> 0, used |-> 0, key |-> {}, analysis |-> 0,
                 analysis_ok |-> 0]

\* no thread is in a call
InitThreads ==
    /\ clock = 0
    /\ pc = [t \in Threads |-> "idle"]
    /\ op = [t \in Threads |-> "none"]
    /\ arg = [t \in Threads |-> NoArg]
    /\ attempt = [t \in Threads |-> 0]
    /\ last_error = [t \in Threads |-> None]
    /\ wake = [t \in Threads |-> 0]
    /\ gen_out = [t \in Threads |-> None]
    /\ result = [t \in Threads |-> None]
    /\ analysis = [t \in Threads |-> None]
    /\ oldest_key = [t \in Threads |-> {}]
    /\ looked = [t \in Threads |-> "none"]
    /\ prev = [t \in Threads |-> -1]
    /\ invoked = [t \in Threads |-> << >>]
    /\ slept = [t \in Threads |-> << >>]
    /\ calls = 0
    /\ admitted = << >>
    /\ probed = << >>
    /\ inserted = << >>
    /\ dispatched = NoDispatches

\* a GeminiRequestManager made by the client itself, with any configuration
\* in the bounds; there is no advisor
InitManager ==
    /\ InitThreads
    /\ requests_per_minute \in 1..MaxRpm
    /\ max_retries \in 0..MaxRetries
    /\ retry_wait_seconds = RetryWaitSeconds
    /\ request_times = << >>
    /\ lock = 0
    /\ request_manager = TRUE
    /\ enabled = FALSE
    /\ model = 0
    /\ initialization_error = FALSE
    /\ analysis_cache = << >>
    /\ ctor = "none"
    /\ candidate = 0

\* before GeminiHealthAdvisor() has run
InitAdvisor ==
    /\ InitThreads
    /\ requests_per_minute = 0
    /\ max_retries = 0
    /\ retry_wait_seconds = 0
    /\ request_times = << >>
    /\ lock = 0
    /\ request_manager = FALSE
    /\ enabled = FALSE
    /\ model = 0
    /\ initialization_error = FALSE
    /\ analysis_cache = << >>
    /\ ctor = "new"
    /\ candidate = 0

\* the steps inside generate, for thread t
GenerateSteps(t) ==
    \/ GenLoop(t)
    \/ WaitForRateLimit(t)
    \/ RateLimitWake(t)
    \/ \E outcome \in ServiceOutcomes(Len(invoked[t]) + 1) : Dispatch(t, outcome)
    \/ BackoffWake(t)

\* threads using the limiter of one manager directly
NextLimiter ==
    \/ /\ calls < MaxCalls
       /\ \E t \in Threads : CallAcquire(t) \/ CallStatus(t) \/ CallReset(t)
    \/ \E t \in Threads : WaitForRateLimit(t) \/ RateLimitWake(t)
    \/ Tick

SpecLimiter == InitManager /\ [][NextLimiter]_vars

GenerateArgs ==
    {[profile |-> << >>, fallback |-> f, valid |-> v] :
        f \in Fallbacks, v \in BOOLEAN}

\* the thread that calls generate and generate_with_fallback (or the advisor),
\* and the threads that use the limiter of the same manager meanwhile
Callers == {1}

NextManager ==
    \/ /\ calls < MaxCalls
       /\ \/ \E t \in Callers, o \in {"generate", "fallback"},
                a \in GenerateArgs : CallGenerate(t, o, a)
          \/ \E t \in Threads \ Callers : CallAcquire(t) \/ CallReset(t)
          \/ \E t \in Threads : CallStatus(t)
    \/ \E t \in Callers :
        \/ GenerateSteps(t)
        \/ GenerateReturn(t)
        \/ FallbackReturn(t)
    \/ \E t \in Threads \ Callers : WaitForRateLimit(t) \/ RateLimitWake(t)
    \/ Tick

SpecManager == InitManager /\ [][NextManager]_vars

\* one thread calls generate while the other uses the limiter of the same
\* manager
NextGenerate ==
    \/ /\ calls < MaxCalls
       /\ \/ \E t \in Callers, a \in GenerateArgs : CallGenerate(t, "generate", a)
          \/ \E t \in Threads \ Callers : CallAcquire(t)
    \/ \E t \in Callers : GenerateSteps(t) \/ GenerateReturn(t)
    \/ \E t \in Threads \ Callers : WaitForRateLimit(t) \/ RateLimitWake(t)

\* every running thread keeps running: a sleep ends, the external service
\* returns or raises, a finished call returns, and a thread that waits for
\* the lock gets it if the lock is free again and again
FairGenerate ==
    \A t \in Threads :
        /\ WF_vars(GenLoop(t))
        /\ SF_vars(WaitForRateLimit(t))
        /\ WF_vars(RateLimitWake(t))
        /\ WF_vars(\E outcome \in ServiceOutcomes(Len(invoked[t]) + 1) :
                      Dispatch(t, outcome))
        /\ WF_vars(BackoffWake(t))
        /\ WF_vars(GenerateReturn(t))

SpecGenerateFair == InitManager /\ [][NextGenerate]_vars /\ FairGenerate

\* the steps of a call that runs generate_full_health_analysis, for thread t
AnalysisSteps(t) ==
    \/ CacheRead(t)
    \/ GenerateSteps(t)
    \/ AnalysisStore(t)
    \/ AnalysisTrim(t)
    \/ AnalysisDel(t)
    \/ AnalysisFail(t)

\* one client thread constructing the advisor and calling it, call after
\* call; time passes in the sleeps only
NextAdvisor ==
    \/ \E api_key, flag, configured \in BOOLEAN :
           Construct(api_key, flag, configured)
    \/ \E outcome \in ServiceOutcomes(1) : Probe(outcome)
    \/ /\ calls < MaxCalls
       /\ \E t \in Callers :
           \/ \E o \in AnalysisOps, p \in Profiles : CallAnalysis(t, o, p)
           \/ CallMotivation(t)
    \/ \E t \in Callers : AnalysisSteps(t) \/ MotivationReturn(t)

Spec == InitAdvisor /\ [][NextAdvisor]_vars

\* an advisor whose construction accepted the first candidate
InitCache ==
    /\ InitThreads
    /\ requests_per_minute = MaxRpm
    /\ max_retries = MaxRetries
    /\ retry_wait_seconds = RetryWaitSeconds
    /\ request_times = << >>
    /\ lock = 0
    /\ request_manager = TRUE
    /\ enabled = TRUE
    /\ model = 1
    /\ initialization_error = FALSE
    /\ analysis_cache = << >>
    /\ ctor = "done"
    /\ candidate = 1

\* the client calling generate_full_health_analysis, one call more than in
\* NextAdvisor
NextCache ==
    \/ /\ calls < MaxCalls + 1
       /\ \E t \in Callers, p \in Profiles : CallAnalysis(t, "analysis", p)
    \/ \E t \in Callers : AnalysisSteps(t)

SpecCache == InitCache /\ [][NextCache]_vars

\* the exceptions _is_quota_error may be given: str(error) of up to MaxWords
\* words and the name of the type, both as raised (not lower-cased)
ErrorWords ==
    {"429", "Quota", "quota", "rate", "limit", "exceeded", "Resource",
     "exhausted", "too", "many", "requests", "invalid"}

ErrorTypes == {<<"ValueError">>, <<"ResourceExhausted">>}

RaisedErrors ==
    {[kind |-> "error", type |-> ty, text |-> tx, n |-> 0] :
        ty \in ErrorTypes,
        tx \in UNION {[1..n -> ErrorWords] : n \in 0..MaxWords}}

\* error_str = str(error).lower(); error_type = type(error).__name__.lower()
Lowered(error) ==
    [error EXCEPT !.text = Lower(@), !.type = Lower(@)]

\* _is_quota_error(error)
Classify(error) == IsQuotaError(Lowered(error))

ClassifyArg(error) ==
    [profile |-> << >>, fallback |-> "", valid |-> TRUE, error |-> error]

\* _is_quota_error(error) has been called by thread 1
InitClassifier ==
    /\ clock = 0
    /\ pc = [t \in Threads |-> IF t \in Callers THEN "classify" ELSE "idle"]
    /\ op = [t \in Threads |-> IF t \in Callers THEN "classify" ELSE "none"]
    /\ \E error \in RaisedErrors :
           arg = [t \in Threads |->
                     IF t \in Callers THEN ClassifyArg(error) ELSE NoArg]
    /\ attempt = [t \in Threads |-> 0]
    /\ last_error = [t \in Threads |-> None]
    /\ wake = [t \in Threads |-> 0]
    /\ gen_out = [t \in Threads |-> None]
    /\ result = [t \in Threads |-> None]
    /\ analysis = [t \in Threads |-> None]
    /\ oldest_key = [t \in Threads |-> {}]
    /\ looked = [t \in Threads |-> "none"]
    /\ prev = [t \in Threads |-> -1]
    /\ invoked = [t \in Threads |-> << >>]
    /\ slept = [t \in Threads |-> << >>]
    /\ calls = 1
    /\ admitted = << >>
    /\ probed = << >>
    /\ inserted = << >>
    /\ dispatched = NoDispatches
    /\ requests_per_minute = MaxRpm
    /\ max_retries = MaxRetries
    /\ retry_wait_seconds = RetryWaitSeconds
    /\ request_times = << >>
    /\ lock = 0
    /\ request_manager = TRUE
    /\ enabled = FALSE
    /\ model = 0
    /\ initialization_error = FALSE
    /\ analysis_cache = << >>
    /\ ctor = "none"
    /\ candidate = 0

\* the call returns True or False
ClassifyReturn(t) ==
    /\ pc[t] = "classify"
    /\ result' = [result EXCEPT ![t] = Returned(Classify(arg[t].error))]
    /\ pc' = [pc EXCEPT ![t] = "idle"]
    /\ UNCHANGED <<clock, cfgVars, limVars, ctorVars, cacheVars, callVars,
                   genVars, locVars, wake, slept, dispatched>>

NextClassifier == \E t \in Callers : ClassifyReturn(t)

SpecClassifier == InitClassifier /\ [][NextClassifier]_vars

\* threads calling generate_full_health_analysis of one advisor at the same
\* time, with an external service that answers every request
NextConcurrent ==
    \/ /\ calls < MaxCalls
       /\ \E t \in Threads, p \in Profiles : CallAnalysis(t, "analysis", p)
    \/ \E t \in Threads :
        \/ CacheRead(t)
        \/ GenLoop(t)
        \/ WaitForRateLimit(t)
        \/ RateLimitWake(t)
        \/ \E r \in Replies : Dispatch(t, Reply(r, Len(invoked[t]) + 1))
        \/ AnalysisStore(t)
        \/ AnalysisTrim(t)
        \/ AnalysisDel(t)

SpecConcurrent == InitCache /\ [][NextConcurrent]_vars

\* What a caller may do to the value a method returned. dict.copy() copies
\* the mapping, not the objects it holds: the lists of the dict that
\* generate_full_health_analysis returns (the parsed dict on a miss, the copy
\* on a hit) are the lists of the cache entry, and enhance_recommendations
\* binds mental_wellness to analysis["wellness"] itself while it builds its
\* other lists anew (list + list). A str or a bool is replaced, not changed.
CallerOps == {"analysis", "enhance"}

\* the item a caller appends to a list
CallerItem == <<"(caller)">>

\* the list of the cache entry that is the same object as the field of the
\* value method o returned, "none" if the field holds an object of its own
SharedList(o, field, entry) ==
    IF o = "analysis" /\ field \in ListFields THEN field
    ELSE IF o = "enhance" /\ field = "mental_wellness" /\ entry.wellness # << >>
    THEN "wellness"
    ELSE "none"

\* result[field].append(item)
AppendFields(o) ==
    IF o = "analysis" THEN {"sleep", "wellness"} ELSE {"sleep", "mental_wellness"}

\* result[field] = value
AssignFields(o) ==
    IF o = "analysis" THEN {"personalized_plan", "cache_hit"} ELSE {}

Assigned(field) == IF field = "cache_hit" THEN "changed" ELSE CallerItem

\* the caller of a call that returned a value made from a cache entry
\* changes that value in place
CallerMutates(t, field) ==
    /\ pc[t] = "idle"
    /\ op[t] \in CallerOps
    /\ looked[t] \in {"hit", "miss"}
    /\ result[t].kind = "return"
    /\ CacheHas(analysis_cache, ProfileToHash(arg[t].profile))
    /\ LET key == ProfileToHash(arg[t].profile)
           entry == CacheGet(analysis_cache, key)
           shared == SharedList(op[t], field, entry)
           old == result[t].val[field]
       IN IF field \in AppendFields(op[t])
          THEN /\ \A i \in 1..Len(old) : old[i] # CallerItem
               /\ result' = [result EXCEPT ![t].val[field] = Append(old, CallerItem)]
               /\ analysis_cache' =
                      IF shared # "none"
                      THEN CacheSet(analysis_cache, key,
                               [entry EXCEPT ![shared] = Append(@, CallerItem)])
                      ELSE analysis_cache
          ELSE /\ field \in AssignFields(op[t])
               /\ old # Assigned(field)
               /\ result' = [result EXCEPT ![t].val[field] = Assigned(field)]
               /\ UNCHANGED analysis_cache
    /\ UNCHANGED <<clock, cfgVars, limVars, ctorVars, inserted, callVars,
                   genVars, locVars, pc, wake, slept, dispatched>>

\* one client calling generate_full_health_analysis and
\* enhance_recommendations of an advisor whose external service answers
\* every request, and changing what it was given
NextCaller ==
    \/ /\ calls < MaxCalls
       /\ \E t \in Callers, o \in CallerOps, p \in Profiles : CallAnalysis(t, o, p)
    \/ \E t \in Callers :
        \/ CacheRead(t)
        \/ GenLoop(t)
        \/ WaitForRateLimit(t)
        \/ RateLimitWake(t)
        \/ \E r \in Replies : Dispatch(t, Reply(r, Len(invoked[t]) + 1))
        \/ AnalysisStore(t)
        \/ AnalysisTrim(t)
        \/ AnalysisDel(t)
        \/ \E field \in AppendFields(op[t]) \cup AssignFields(op[t]) :
               CallerMutates(t, field)

SpecCaller == InitCache /\ [][NextCaller]_vars

\* the lines of the replies that are not JSON: section headers, bullet lines
\* with and without a marker of the parser, paragraph text, white space, a fence
TextLines ==
    { <<"###", "SLEEP">>,
      <<" ", "###", "Nutrition", "tips">>,
      <<"###", "30-DAY", "plan">>,
      <<"###", "Key", "Insights">>,
      <<"###", "Summary">>,
      <<"-", "rest">>,
      <<" ", "(salad)", "greens", " ">>,
      <<"*", "walk">>,
      <<"week", "1">>,
      <<" ">>,
      <<"(fence)">> }

MarkdownTexts == UNION {[1..n -> TextLines] : n \in 0..MaxLines}

\* a JSON document alone, with white space around it, inside a code fence, and
\* inside a fence that closes on the document's line or is followed by a remark
Bare(doc) == << <<doc>> >>
Padded(doc) == << <<" ">>, <<" ", doc, " ">>, << >> >>
Fenced(open, doc) == << <<open>>, <<doc>>, <<"(fence)">> >>
FencedTight(doc) == << <<"(fence)json">>, <<doc, "(fence)">> >>
FencedRemark(doc) ==
    << <<"(fence)">>, <<doc>>, <<"(fence)">>, <<"hope", "this", "helps">> >>

JsonTexts ==
    UNION {{Bare(doc), Padded(doc), FencedTight(doc), FencedRemark(doc)}
               \cup {Fenced(open, doc) : open \in FenceWords} :
           doc \in JsonDocuments}

Texts == MarkdownTexts \cup JsonTexts

ParseArg(text) ==
    [profile |-> << >>, fallback |-> "", valid |-> TRUE, text |-> text]

\* _parse_unified_response(text) has been called by thread 1
InitParser ==
    /\ clock = 0
    /\ pc = [t \in Threads |-> IF t \in Callers THEN "parse" ELSE "idle"]
    /\ op = [t \in Threads |-> IF t \in Callers THEN "parse" ELSE "none"]
    /\ \E text \in Texts :
           arg = [t \in Threads |->
                     IF t \in Callers THEN ParseArg(text) ELSE NoArg]
    /\ attempt = [t \in Threads |-> 0]
    /\ last_error = [t \in Threads |-> None]
    /\ wake = [t \in Threads |-> 0]
    /\ gen_out = [t \in Threads |-> None]
    /\ result = [t \in Threads |-> None]
    /\ analysis = [t \in Threads |-> None]
    /\ oldest_key = [t \in Threads |-> {}]
    /\ looked = [t \in Threads |-> "none"]
    /\ prev = [t \in Threads |-> -1]
    /\ invoked = [t \in Threads |-> << >>]
    /\ slept = [t \in Threads |-> << >>]
    /\ calls = 1
    /\ admitted = << >>
    /\ probed = << >>
    /\ inserted = << >>
    /\ dispatched = NoDispatches
    /\ requests_per_minute = MaxRpm
    /\ max_retries = MaxRetries
    /\ retry_wait_seconds = RetryWaitSeconds
    /\ request_times = << >>
    /\ lock = 0
    /\ request_manager = TRUE
    /\ enabled = TRUE
    /\ model = 1
    /\ initialization_error = FALSE
    /\ analysis_cache = << >>
    /\ ctor = "done"
    /\ candidate = 1

\* the call returns (or raises) what the parser makes of the text
ParseReturn(t) ==
    /\ pc[t] = "parse"
    /\ result' = [result EXCEPT ![t] = ParseCall(arg[t].text)]
    /\ pc' = [pc EXCEPT ![t] = "idle"]
    /\ UNCHANGED <<clock, cfgVars, limVars, ctorVars, cacheVars, callVars,
                   genVars, locVars, wake, slept, dispatched>>

NextParser == \E t \in Callers : ParseReturn(t)

SpecParser == InitParser /\ [][NextParser]_vars

\* ------------------------------------------------------------------ claims
\* a thread's call has returned or raised
Finished(t) == pc[t] = "idle" /\ op[t] # "none"

\* C1: with no reset in between, the timestamp recorded by the (k+N)-th
\* admitted call of _wait_for_rate_limit is at least 60 s later than the one
\* recorded by the k-th, N being requests_per_minute, whatever the
\* interleaving of the calling threads
WindowRespected ==
    Len(admitted) = requests_per_minute + 1
        => admitted[Len(admitted)] - admitted[1] >= Window

\* C1 witness: the (N+1)-th admission was made by a thread that the limiter
\* put to sleep, while another thread had an admission in the same window
WindowWaited ==
    /\ Len(admitted) = requests_per_minute + 1
    /\ \E t \in Threads :
           /\ Finished(t)
           /\ op[t] = "acquire"
           /\ slept[t] # << >>
           /\ admitted[Len(admitted)] = admitted[1] + Window + Epsilon
    /\ \E u \in Threads : Finished(u) /\ op[u] = "acquire" /\ slept[u] = << >>

\* the invocations s all raised quota errors
AllQuota(s) ==
    \A i \in 1..Len(s) : s[i].kind = "error" /\ IsQuotaError(s[i])

\* the backoff sleeps of thread t's call, as places in slept[t]
Backoffs(t) == {i \in 1..Len(slept[t]) : slept[t][i][1] = "backoff"}

RetriesExhausted ==
    \A t \in Threads :
        op[t] = "generate" =>
            /\ Len(invoked[t]) <= max_retries + 1
            /\ Finished(t) /\ invoked[t] # << >> /\ AllQuota(invoked[t])
               => /\ Len(invoked[t]) = max_retries + 1
                  /\ result[t] = Raised(invoked[t][Len(invoked[t])])

\* C6 witness: generate raised after max_retries + 1 quota errors, with at
\* least one retry
ExhaustedAfterRetries ==
    \E t \in Threads :
        /\ Finished(t)
        /\ op[t] = "generate"
        /\ max_retries >= 1
        /\ Len(invoked[t]) = max_retries + 1
        /\ AllQuota(invoked[t])
        /\ result[t].kind = "raise"

\* the first invocation of thread t's call raised an error that is no quota
\* error
FatalFirst(t) ==
    /\ invoked[t] # << >>
    /\ invoked[t][1].kind = "error"
    /\ ~IsQuotaError(invoked[t][1])

\* C7: generate, when the dispatch raises a non-quota error, makes no further
\* invocation and no backoff sleep and raises that error, whatever
\* max_retries is
FatalPropagates ==
    \A t \in Threads :
        op[t] = "generate" /\ FatalFirst(t) =>
            /\ Len(invoked[t]) = 1
            /\ Backoffs(t) = {}
            /\ pc[t] \in {"gen_done", "idle"}
            /\ Finished(t) => result[t] = Raised(invoked[t][1])

\* C7 witness: generate raised a non-quota error with retries to spare
FatalRaised ==
    \E t \in Threads :
        /\ Finished(t)
        /\ op[t] = "generate"
        /\ FatalFirst(t)
        /\ max_retries = MaxRetries
        /\ result[t].kind = "raise"

\* C2 (as amended): on an enabled advisor whose service succeeds, two
\* sequential generate_full_health_analysis calls with identical profiles
\* make exactly one external invocation in total, and the second call returns
\* cache_hit = True with the stored api_calls_made, which is 1
SecondCallCached ==
    \A t \in Threads :
        Finished(t) /\ op[t] = "analysis" /\ prev[t] >= 0 =>
            /\ prev[t] + Len(invoked[t]) = 1
            /\ result[t].kind = "return"
            /\ result[t].val.cache_hit = "True"
            /\ result[t].val.api_calls_made = 1

\* C2 (as claimed): the second call reports api_calls_made = 0
SecondCallReportsZero ==
    \A t \in Threads :
        Finished(t) /\ op[t] = "analysis" /\ prev[t] >= 0 =>
            /\ prev[t] + Len(invoked[t]) = 1
            /\ result[t].kind = "return"
            /\ result[t].val.cache_hit = "True"
            /\ result[t].val.api_calls_made = 0

\* C2 witness: the second of two such calls has returned from the cache
SecondCallReturned ==
    \E t \in Threads :
        /\ Finished(t)
        /\ op[t] = "analysis"
        /\ prev[t] = 1
        /\ looked[t] = "hit"
        /\ result[t].kind = "return"

\* C3 (as amended): over sequential calls of enhance_recommendations,
\* get_personalized_plan and get_health_insights of an enabled advisor that
\* all pass one profile, at most one external invocation succeeds (failed
\* invocations are retried or repeated by the next call)
OneSuccessfulDispatch ==
    dispatched.used = 1 => dispatched.analysis_ok <= 1

\* C3 (as claimed): over such calls at most one external invocation is made
OneDispatch ==
    dispatched.used = 1 => dispatched.analysis <= 1

\* C3 witness: after a failed and a successful invocation for one profile, a
\* further call for it was served from the cache
ServedAfterFailure ==
    \E t \in Threads :
        /\ Finished(t)
        /\ op[t] \in {"enhance", "plan", "insights"}
        /\ looked[t] = "hit"
        /\ dispatched.used = 1
        /\ dispatched.analysis = 2
        /\ dispatched.analysis_ok = 1

\* C4 (as amended): get_motivation_message of an enabled advisor does not go
\* through the steps of generate_full_health_analysis: it makes no cache
\* lookup and issues external invocations of its own, at least one per call,
\* through the request manager's limiter
MotivationDispatches ==
    \A t \in Threads :
        op[t] = "motivation" /\ ~Disabled =>
            /\ looked[t] = "none"
            /\ Finished(t) =>
                   /\ invoked[t] # << >>
                   /\ admitted # << >>
                   /\ result[t].kind = "return"

\* C4 (as claimed): get_motivation_message of an enabled advisor goes through
\* the cache lookup and issues no external invocation of its own
MotivationRouted ==
    \A t \in Threads :
        op[t] = "motivation" /\ ~Disabled /\ Finished(t) =>
            /\ looked[t] \in {"hit", "miss"}
            /\ invoked[t] = << >>

\* C4 witness: get_motivation_message returned the reply of its own
\* invocation while the cache held an analysis
MotivationReturned ==
    \E t \in Threads :
        /\ Finished(t)
        /\ op[t] = "motivation"
        /\ ~Disabled
        /\ analysis_cache # << >>
        /\ Len(invoked[t]) = 1
        /\ invoked[t][1].kind = "ok"

\* the keys of the cache, in the order of the dict
CacheKeys == [i \in 1..Len(analysis_cache) |-> analysis_cache[i].key]

\* the keys stored last, oldest first
InsertedKeys == [i \in 1..Len(inserted) |-> inserted[i].key]

\* C8: the cache evicts first in, first out: once _cache_max_size + 1
\* distinct profiles were stored, the one stored first is no longer in the
\* cache and the others are, in the order they were stored, whether or not
\* a lookup hit any of them in between
EvictsFirstIn ==
    \A t \in Callers :
        pc[t] = "idle" =>
            IF Len(inserted) = CacheMaxSize + 1
            THEN /\ CacheKeys = Tail(InsertedKeys)
                 /\ ~CacheHas(analysis_cache, inserted[1].key)
            ELSE CacheKeys = InsertedKeys

\* C8 witness: the entry stored first was hit by a later lookup, and was
\* evicted all the same when the cache overflowed
EvictedThoughHit ==
    \E t \in Callers :
        /\ pc[t] = "idle"
        /\ Len(inserted) = CacheMaxSize + 1
        /\ inserted[1].hit
        /\ ~CacheHas(analysis_cache, inserted[1].key)
        /\ \A i \in 2..Len(inserted) :
               CacheHas(analysis_cache, inserted[i].key)

\* the methods of the advisor
AdvisorOps == AnalysisOps \cup {"motivation"}

\* a call on a disabled advisor returns at once, without raising, without an
\* external invocation, without a sleep or a limiter timestamp
NothingDone(t) ==
    /\ pc[t] = "idle"
    /\ result[t].kind = "return"
    /\ invoked[t] = << >>
    /\ slept[t] = << >>
    /\ request_times = << >>
    /\ admitted = << >>

\* the category lists and the insights text of an analysis are empty and it
\* reports no API call
EmptyAnalysis(a) ==
    /\ a.sleep = << >>
    /\ a.diet = << >>
    /\ a.fitness = << >>
    /\ a.wellness = << >>
    /\ a.health_insights = << >>
    /\ a.api_calls_made = 0

\* C9 (as amended): every accessor of a disabled advisor returns its default
\* for any profile, without raising, without an external invocation or a
\* limiter timestamp: empty category lists, empty insights, api_calls_made =
\* 0, the recommendations as passed in, and for the plan text and the
\* motivation message a fixed placeholder text
DisabledDefaults ==
    \A t \in Threads :
        ctor = "done" /\ ~enabled /\ op[t] \in AdvisorOps =>
            /\ NothingDone(t)
            /\ op[t] = "analysis" =>
                   /\ EmptyAnalysis(result[t].val)
                   /\ result[t].val.personalized_plan =
                          <<"AI enhancements disabled.">>
            /\ op[t] = "plan" =>
                   result[t].val =
                       <<"AI enhancements disabled. Using standard recommendations.">>
            /\ op[t] = "insights" => result[t].val = << >>
            /\ op[t] = "enhance" => result[t].val = StandardRecs
            /\ op[t] = "motivation" => result[t].val = "Keep up your goals!"

\* C9 (as claimed): the plan text of a disabled advisor is empty too
DisabledEmpty ==
    \A t \in Threads :
        ctor = "done" /\ ~enabled /\ op[t] \in AdvisorOps =>
            /\ NothingDone(t)
            /\ op[t] = "analysis" =>
                   /\ EmptyAnalysis(result[t].val)
                   /\ result[t].val.personalized_plan = << >>
            /\ op[t] = "plan" => result[t].val = << >>
            /\ op[t] = "insights" => result[t].val = << >>
            /\ op[t] = "enhance" => result[t].val = StandardRecs

\* C9 witness: an advisor that no candidate accepted has answered a call of
\* generate_full_health_analysis
DisabledAnswered ==
    \E t \in Threads :
        /\ ctor = "done"
        /\ ~enabled
        /\ Len(probed) = NumModels
        /\ Finished(t)
        /\ op[t] = "analysis"
        /\ calls = MaxCalls

\* C10: construction probes the candidates in their order of preference, one
\* test request each; the first whose test succeeds becomes the model and no
\* later candidate is probed; when every test fails construction ends
\* disabled with no model
ProbesInOrder ==
    /\ Len(probed) <= NumModels
    /\ \A i \in 1..Len(probed) : probed[i][1] = i
    /\ \A i \in 1..(Len(probed) - 1) : probed[i][2] = "error"
    /\ ctor = "probing" =>
           /\ model = 0
           /\ Len(probed) < NumModels
           /\ \A i \in 1..Len(probed) : probed[i][2] = "error"
    /\ ctor = "done" /\ probed # << >> =>
           IF probed[Len(probed)][2] = "ok"
           THEN /\ model = probed[Len(probed)][1]
                /\ enabled
                /\ request_manager
           ELSE /\ Len(probed) = NumModels
                /\ model = 0
                /\ ~enabled
                /\ ~request_manager

\* C10 witness: the second candidate was accepted after the first had
\* failed, and the advisor is in use
SecondCandidateAccepted ==
    /\ ctor = "done"
    /\ model = 2
    /\ Len(probed) = 2
    /\ enabled
    /\ calls > 0

\* C11 (as claimed): generate_with_fallback never raises, and whenever the
\* generate it runs ends in an exception (validation error, non-quota error,
\* retries exhausted) it returns exactly the fallback value it was given, the
\* empty string included
FallbackGiven ==
    \A t \in Threads :
        Finished(t) /\ op[t] = "fallback" =>
            /\ result[t].kind = "return"
            /\ gen_out[t].kind = "raise" => result[t].val = arg[t].fallback

\* thread t is in a call of generate whose prompt is empty or no string
BadPrompt(t) == op[t] = "generate" /\ ~arg[t].valid

\* a call with a bad prompt is over at once: nothing invoked, no sleep, the
\* validation error raised
RejectedAtOnce ==
    \A t \in Threads :
        BadPrompt(t) =>
            /\ invoked[t] = << >>
            /\ slept[t] = << >>
            /\ pc[t] \in {"gen_done", "idle"}
            /\ gen_out[t] = Raised(ErrValue)
            /\ Finished(t) => result[t] = Raised(ErrValue)

\* the steps of a call with a bad prompt leave the limiter and the clock as
\* they are
LimiterUntouched ==
    \A t \in Threads :
        pc'[t] # pc[t] /\ op'[t] = "generate" /\ ~arg'[t].valid =>
            UNCHANGED <<request_times, admitted, lock, clock>>

\* C12: generate called with an empty or non-string prompt fails at once with
\* the validation error: no acquire, no timestamp recorded, no external
\* invocation, no retry or backoff sleep, the limiter state unchanged
BadPromptRejected == []RejectedAtOnce /\ [][LimiterUntouched]_vars

\* C12 witness: generate has raised the validation error on a manager whose
\* limiter holds timestamps
BadPromptRaised ==
    \E t \in Threads :
        /\ BadPrompt(t)
        /\ Finished(t)
        /\ result[t] = Raised(ErrValue)
        /\ request_times # << >>

\* thread t's call of generate_full_health_analysis missed the cache and its
\* generate ended in an exception (a non-quota error, or retries exhausted)
DispatchFailed(t) ==
    /\ Finished(t)
    /\ op[t] = "analysis"
    /\ looked[t] = "miss"
    /\ gen_out[t].kind = "raise"

\* such a call returns the error dict and the profile is not in the cache
FailureNotCached ==
    \A t \in Callers :
        DispatchFailed(t) =>
            /\ result[t].kind = "return"
            /\ EmptyAnalysis(result[t].val)
            /\ result[t].val.error = "set"
            /\ ~CacheHas(analysis_cache, ProfileToHash(arg[t].profile))

\* the call for the same profile that follows such a call misses the cache
\* and goes to generate
RetriedByNextCall ==
    \A t \in Callers :
        /\ DispatchFailed(t)
        /\ pc'[t] # "idle"
        /\ op'[t] = "analysis"
        /\ ProfileToHash(arg'[t].profile) = ProfileToHash(arg[t].profile)
        => /\ looked'[t] = "miss"
           /\ pc'[t] = "gen_loop"
           /\ UNCHANGED analysis_cache

\* the cache changes only in the store that follows a generate that returned,
\* and in the eviction after such a store
CacheChangedByStore ==
    analysis_cache' # analysis_cache =>
        \E t \in Threads :
            \/ pc[t] = "gen_done" /\ gen_out[t].kind = "return"
            \/ pc[t] = "del"

Parsed(t) == Finished(t) /\ op[t] = "parse"

\* json.loads refuses the text of thread t's call
StrictFailed(t) == ~IsJson(CleanResponse(arg[t].text))

\* the lines of a text, stripped, that start with one of the parser's markers
BulletLines(text) ==
    {Strip(text[i]) : i \in {j \in 1..Len(text) :
        Strip(text[j]) # << >> /\ Head(Strip(text[j])) \in BulletMarkers}}

\* the words of a text
TextWords(text) ==
    UNION {{text[i][j] : j \in 1..Len(text[i])} : i \in 1..Len(text)}

\* C14: _parse_unified_response raises for no text and returns a structure of
\* exactly the six fields sleep, diet, fitness, wellness, personalized_plan and
\* health_insights; when json.loads refuses the text, what it returns was
\* recovered from the text (every list item is a bullet line of the text,
\* every word of a text field is a word of the text), and may be all empty
ParserNeverRaises ==
    \A t \in Callers :
        Parsed(t) =>
            /\ result[t].kind = "return"
            /\ DOMAIN result[t].val = ListFields \cup TextFields
            /\ StrictFailed(t) =>
                   /\ \A c \in ListFields :
                          \A i \in 1..Len(result[t].val[c]) :
                              result[t].val[c][i] \in BulletLines(arg[t].text)
                   /\ \A c \in TextFields :
                          \A i \in 1..Len(result[t].val[c]) :
                              result[t].val[c][i]
                                  \in TextWords(arg[t].text) \cup {" "}

\* C14 witness: json.loads refused a text, and the fallback recovered a list
\* item and a text from it while two category lists stayed empty
PartlyRecovered ==
    \E t \in Callers :
        /\ Parsed(t)
        /\ StrictFailed(t)
        /\ result[t].kind = "return"
        /\ result[t].val.sleep # << >>
        /\ result[t].val.personalized_plan # << >>
        /\ result[t].val.fitness = << >>
        /\ result[t].val.wellness = << >>

\* the texts that are one JSON object, bare, padded with white space, or
\* wrapped in a code fence
ObjectTexts ==
    UNION {{Bare(doc), Padded(doc)} \cup {Fenced(open, doc) : open \in FenceWords} :
           doc \in JsonObjects}

\* the JSON object that such a text holds
ObjectOf(text) ==
    JsonValue(CHOOSE doc \in JsonObjects :
                  text \in {Bare(doc), Padded(doc)}
                            \cup {Fenced(open, doc) : open \in FenceWords})

\* the items of a category of the object, none when the key is missing or is
\* no array
ItemsOf(obj, c) ==
    IF obj[c].present /\ obj[c].is_list THEN obj[c].val ELSE << >>

\* the truthy items, in order, each as a string and trimmed
Coerced(items) ==
    LET kept == SelectSeq(items, Truthy)
    IN [i \in 1..Len(kept) |-> Strip(Str(kept[i]))]

\* the category lists are the reply's truthy items, in order, coerced and
\* trimmed, and the text fields are the reply's, coerced and trimmed
ItemsInOrder ==
    \A t \in Callers :
        Parsed(t) /\ arg[t].text \in ObjectTexts =>
            /\ result[t].kind = "return"
            /\ \A c \in ListFields :
                   result[t].val[c] = Coerced(ItemsOf(ObjectOf(arg[t].text), c))
            /\ \A c \in TextFields :
                   LET v == ObjectOf(arg[t].text)[c]
                   IN result[t].val[c] =
                          IF v.present THEN Strip(Str(v.val)) ELSE << >>

\* no category list holds an empty string
NoEmptyItem ==
    \A t \in Callers :
        Parsed(t) /\ arg[t].text \in ObjectTexts /\ result[t].kind = "return" =>
            \A c \in ListFields :
                \A i \in 1..Len(result[t].val[c]) : result[t].val[c][i] # << >>

\* C15 (as claimed): on a JSON object, bare or wrapped in a code fence,
\* _parse_unified_response returns for each category the reply's items in
\* their order, each coerced to a string and trimmed, the empty and falsy ones
\* dropped, so that no returned list holds an empty string, and returns both
\* text fields trimmed
StrictItemsClean == ItemsInOrder /\ NoEmptyItem

\* a line that is a "###" header, a bullet line (one of the parser's
\* markers first), or other content
IsHeader(line) == ~Blank(line) /\ Head(Strip(line)) = "###"
IsBullet(line) == ~Blank(line) /\ Head(Strip(line)) \in BulletMarkers
IsPlain(line) == ~Blank(line) /\ ~IsHeader(line) /\ ~IsBullet(line)

\* the keywords by which a header is recognized as that of a section
Keywords(c) ==
    CASE c = "sleep" -> {"sleep"}
      [] c = "diet" -> {"diet", "nutrition"}
      [] c = "fitness" -> {"fitness", "exercise"}
      [] c = "wellness" -> {"wellness", "mental"}
      [] c = "personalized_plan" -> {"personalized", "30-day"}
      [] c = "health_insights" -> {"insight", "insights"}

\* the header line names section c
Names(line, c) ==
    IsHeader(line) /\ \E i \in 1..Len(line) : LowerWord(line[i]) \in Keywords(c)

\* the text has a header of section c followed, before the next header, by a
\* bullet line (bullets = TRUE) or by other content (bullets = FALSE)
SectionWith(text, c, bullets) ==
    \E i \in 1..Len(text) : \E j \in (i + 1)..Len(text) :
        /\ Names(text[i], c)
        /\ IF bullets THEN IsBullet(text[j]) ELSE IsPlain(text[j])
        /\ \A k \in (i + 1)..(j - 1) : ~IsHeader(text[k])

DispatchSucceeded(t) ==
    /\ Finished(t)
    /\ op[t] = "analysis"
    /\ invoked[t] # << >>
    /\ invoked[t][Len(invoked[t])].kind = "ok"

\* C17 (as claimed): in every interleaving of concurrent
\* generate_full_health_analysis calls, each call whose external dispatch
\* succeeded returns the parsed result of that dispatch with api_calls_made =
\* 1, never the error structure and never an exception
ConcurrentCallsSafe ==
    \A t \in Threads :
        DispatchSucceeded(t) =>
            /\ result[t].kind = "return"
            /\ result[t].val.error = "absent"
            /\ result[t].val.api_calls_made = 1
            /\ result[t].val =
                   WithMetadata(ParseUnifiedResponse(RawText(
                       invoked[t][Len(invoked[t])].text[1])))

\* both threads' calls are for one profile hash, both missed the cache, and
\* both have ended
BothMissed ==
    /\ \A t \in Threads :
           Finished(t) /\ op[t] = "analysis" /\ looked[t] = "miss"
    /\ \A t, u \in Threads :
           ProfileToHash(arg[t].profile) = ProfileToHash(arg[u].profile)

\* the two calls ran at the same time: both are the only calls so far
Overlapped == BothMissed /\ calls = 2

\* C18: concurrent misses for one key are not coalesced: when two
\* generate_full_health_analysis calls for the same profile both look the
\* cache up before either stores, each makes its own acquire and its own
\* external dispatch (two in all), and after both ended the cache holds
\* exactly one entry for the key
MissesNotCoalesced ==
    Overlapped =>
        /\ \A t \in Threads : Len(invoked[t]) = 1
        /\ Len(admitted) = 2
        /\ Len(request_times) = 2
        /\ \A t \in Threads :
               Len(SelectSeq(analysis_cache,
                             LAMBDA e : e.key = ProfileToHash(arg[t].profile))) = 1

\* C18 witness: two calls for one profile overlapped, each got its own reply,
\* and the cache holds the one entry, that of the later store
TwoDispatchesOneEntry ==
    /\ Overlapped
    /\ invoked[1][1].text # invoked[2][1].text
    /\ Len(analysis_cache) = 1
    /\ result[1].kind = "return"
    /\ result[2].kind = "return"
    /\ result[1].val # result[2].val

\* C19: whatever the interleaving of generate, generate_with_fallback,
\* get_rate_limit_status and reset_rate_limit calls, the timestamp history
\* holds at most requests_per_minute entries, in non-decreasing time order
HistoryBoundedSorted ==
    /\ Len(request_times) <= requests_per_minute
    /\ \A i \in 1..(Len(request_times) - 1) :
           request_times[i] <= request_times[i + 1]

\* C19 witness: an admission found the history full and pushed its oldest
\* entry out; the history holds the last requests_per_minute timestamps
HistoryRolled ==
    /\ Len(request_times) = requests_per_minute
    /\ Len(admitted) = requests_per_minute + 1
    /\ request_times = Tail(admitted)
    /\ admitted[1] < request_times[1]
    /\ \E t \in Callers : op[t] \in {"generate", "fallback"} /\ invoked[t] # << >>

\* between calls the cache holds at most _cache_max_size entries, and inside
\* a call at most one more
CacheBounded ==
    /\ Len(analysis_cache) <= CacheMaxSize + 1
    /\ (\A t \in Threads : pc[t] = "idle") => Len(analysis_cache) <= CacheMaxSize

\* a step removes at most one entry, and the step that removes one is the
\* `del` that ends the call which stored
EvictsOne ==
    Len(analysis_cache') < Len(analysis_cache) =>
        /\ Len(analysis_cache') = Len(analysis_cache) - 1
        /\ \E t \in Callers :
               /\ pc[t] = "del"
               /\ pc'[t] = "idle"
               /\ CacheHas(analysis_cache', ProfileToHash(arg[t].profile))

\* C20: after any sequence of generate_full_health_analysis calls the cache
\* holds at most the configured maximum of entries, and a store evicts at
\* most one entry
CacheSizeKept == []CacheBounded /\ [][EvictsOne]_vars

\* C20 witness: a call stored into a full cache, evicted one entry, and
\* returned its own result; the cache is full again
StoredIntoFull ==
    \E t \in Callers :
        /\ Finished(t)
        /\ looked[t] = "miss"
        /\ oldest_key[t] # {}
        /\ result[t].kind = "return"
        /\ result[t].val.api_calls_made = 1
        /\ Len(analysis_cache) = CacheMaxSize
        /\ ~CacheHas(analysis_cache, oldest_key[t])
        /\ CacheHas(analysis_cache, ProfileToHash(arg[t].profile))

\* thread t is inside _wait_for_rate_limit
InAcquire(t) == pc[t] \in {"rl_enter", "rl_sleep"}

\* one timestamp, the time of the step's end, was recorded in this step
OneRecorded ==
    /\ request_times' # << >>
    /\ request_times'[Len(request_times')] = clock'
    /\ admitted'[Len(admitted')] = clock'
    /\ \/ admitted' = Append(admitted, clock')
       \/ /\ Len(admitted) = requests_per_minute + 1
          /\ admitted' = Append(Tail(admitted), clock')

\* a generate call invokes the model only from the position it reaches by
\* leaving _wait_for_rate_limit, which it leaves by recording one timestamp,
\* and it invokes the model once from there
AcquireBeforeAttempt ==
    \A t \in Callers :
        op[t] \in {"generate", "fallback"} /\ op'[t] = op[t] /\ pc[t] # "idle" =>
            /\ invoked'[t] # invoked[t] =>
                   /\ pc[t] = "dispatch"
                   /\ pc'[t] # "dispatch"
                   /\ Len(invoked'[t]) = Len(invoked[t]) + 1
                   /\ UNCHANGED <<request_times, admitted>>
            /\ pc'[t] = "dispatch" /\ pc[t] # "dispatch" =>
                   InAcquire(t) /\ OneRecorded
            /\ InAcquire(t) /\ pc'[t] \notin {"rl_enter", "rl_sleep"} =>
                   pc'[t] = "dispatch" /\ OneRecorded
            /\ pc[t] = "dispatch" /\ pc'[t] # pc[t] => invoked'[t] # invoked[t]

\* while the call of the caller is the only call made so far, the timestamps
\* recorded are as many as its invocations, one more when an invocation is
\* about to be made
TimestampsCounted ==
    \A t \in Callers :
        /\ calls = 1
        /\ op[t] \in {"generate", "fallback"}
        /\ Len(invoked[t]) <= requests_per_minute
        => Len(admitted) =
               Len(invoked[t]) + (IF pc[t] = "dispatch" THEN 1 ELSE 0)

\* C21: every external dispatch attempt of generate, the first and each one
\* after a backoff, is preceded by its own acquire, which records exactly one
\* timestamp; the timestamps a call records are as many as its attempts,
\* the failed ones included
AcquirePerAttempt == []TimestampsCounted /\ [][AcquireBeforeAttempt]_vars

\* C21 witness: a call made three attempts, two of them failed, and three
\* timestamps were recorded, the last two after the backoff sleeps
ThreeAttemptsThreeStamps ==
    \E t \in Callers :
        /\ Finished(t)
        /\ op[t] = "generate"
        /\ calls = 1
        /\ Len(invoked[t]) = 3
        /\ invoked[t][1].kind = "error"
        /\ invoked[t][2].kind = "error"
        /\ Len(admitted) = 3
        /\ admitted[2] >= admitted[1] + retry_wait_seconds

\* C22: no thread holds the limiter's lock while it is inside the external
\* dispatch call (the lock is held inside _wait_for_rate_limit only), so while
\* one thread's dispatch is in flight another thread can enter the limiter's
\* critical section: its get_rate_limit_status can run, and so can its
\* acquire
DispatchHoldsNoLock ==
    /\ lock # 0 => pc[lock] = "rl_sleep"
    /\ \A t \in Threads :
           pc[t] = "dispatch" =>
               /\ lock # t
               /\ \A u \in Threads \ {t} :
                      /\ pc[u] = "idle" => ENABLED CallStatus(u)
                      /\ pc[u] = "rl_enter" => ENABLED WaitForRateLimit(u)

\* C22 witness: while the caller's first dispatch was in flight, another
\* thread's get_rate_limit_status ran to completion and reported the
\* caller's timestamp
StatusDuringDispatch ==
    \E t \in Callers : \E u \in Threads \ Callers :
        /\ pc[t] = "dispatch"
        /\ invoked[t] = << >>
        /\ calls = 2
        /\ Finished(u)
        /\ op[u] = "status"
        /\ result[u].kind = "status"
        /\ result[u].requests_in_window = 1

\* thread t's call of _is_quota_error has returned
Classified(t) == Finished(t) /\ op[t] = "classify"

\* the words of the message and of the type name, lower-cased
LowText(t) == [i \in 1..Len(arg[t].error.text) |-> LowerWord(arg[t].error.text[i])]
LowType(t) == [i \in 1..Len(arg[t].error.type) |-> LowerWord(arg[t].error.type[i])]

\* the marker occurs in the message or in the type name
Marked(t, marker) ==
    \/ \E i \in 0..(Len(LowText(t)) - Len(marker)) :
           SubSeq(LowText(t), i + 1, i + Len(marker)) = marker
    \/ \E i \in 0..(Len(LowType(t)) - Len(marker)) :
           SubSeq(LowType(t), i + 1, i + Len(marker)) = marker

\* the markers of the claim, and the patterns of _is_quota_error
ClaimedMarkers ==
    { <<"429">>, <<"quota">>, <<"rate", "limit">>, <<"resource", "exhausted">> }

CodeMarkers ==
    { <<"429">>, <<"quota">>, <<"rate", "limit">>, <<"quota", "exceeded">>,
      <<"resourceexhausted">>, <<"too", "many", "requests">> }

\* C23 (as claimed): an error whose text or type name contains "429",
\* "quota", "rate limit" or "resource exhausted", in any case, is classified
\* Retryable, and an error that contains none of them is classified Fatal
ClassifiedByClaimedMarkers ==
    \A t \in Callers :
        Classified(t) =>
            /\ result[t].kind = "return"
            /\ result[t].val \in BOOLEAN
            /\ result[t].val = (\E m \in ClaimedMarkers : Marked(t, m))

\* C23 (as amended): the classification is two-valued and total: an error
\* whose text or type name contains "429", "quota", "rate limit", "quota
\* exceeded", "resourceexhausted" or "too many requests", in any case, is
\* classified Retryable, and an error that contains none of them is
\* classified Fatal
ClassifiedByCodeMarkers ==
    \A t \in Callers :
        Classified(t) =>
            /\ result[t].kind = "return"
            /\ result[t].val \in BOOLEAN
            /\ result[t].val = (\E m \in CodeMarkers : Marked(t, m))

\* C23 witness: an error of type ResourceExhausted whose message holds no
\* marker was classified Retryable, by its type name lower-cased
RetryableByTypeName ==
    \E t \in Callers :
        /\ Classified(t)
        /\ arg[t].error.type = <<"ResourceExhausted">>
        /\ arg[t].error.text = <<"Resource", "exhausted">>
        /\ result[t] = Returned(TRUE)

\* thread t's call of generate_full_health_analysis has returned a structure
AnalysisReturned(t) ==
    Finished(t) /\ op[t] = "analysis" /\ result[t].kind = "return"

\* C24 (as claimed): api_calls_made of every structure that
\* generate_full_health_analysis returns is the number of external dispatch
\* attempts made to produce it: 0 for a cache hit or a disabled advisor, the
\* number of attempts, retries included, for a cache miss
CallsMadeCounted ==
    \A t \in Callers :
        AnalysisReturned(t) => result[t].val.api_calls_made = Len(invoked[t])

\* C24 (as amended): api_calls_made is 0 or 1 and tells whether the structure
\* holds a parsed reply, not how many attempts were made: it is 0 for a
\* disabled advisor (no attempt) and for a miss whose dispatch failed (one
\* attempt or more), and 1 for a miss whose dispatch succeeded, after however
\* many attempts, and for a cache hit (no attempt), which copies the stored 1
CallsMadeFlag ==
    \A t \in Callers :
        AnalysisReturned(t) =>
            /\ looked[t] = "none" =>
                   result[t].val.api_calls_made = 0 /\ invoked[t] = << >>
            /\ looked[t] = "hit" =>
                   result[t].val.api_calls_made = 1 /\ invoked[t] = << >>
            /\ looked[t] = "miss" /\ gen_out[t].kind = "return" =>
                   /\ result[t].val.api_calls_made = 1
                   /\ Len(invoked[t]) \in 1..(max_retries + 1)
            /\ looked[t] = "miss" /\ gen_out[t].kind = "raise" =>
                   /\ result[t].val.api_calls_made = 0
                   /\ Len(invoked[t]) \in 1..(max_retries + 1)

\* C24 witness: a miss whose dispatch succeeded at the third attempt returned
\* api_calls_made = 1
ThirdAttemptReportsOne ==
    \E t \in Callers :
        /\ AnalysisReturned(t)
        /\ looked[t] = "miss"
        /\ Len(invoked[t]) = 3
        /\ invoked[t][3].kind = "ok"
        /\ result[t].val.api_calls_made = 1

\* the external requests of the last 60 s: the test requests of the
\* construction, which are made at time 0, and the dispatches, one for each
\* timestamp the limiter recorded
RecentRequests ==
    (IF clock < Window THEN Len(probed) ELSE 0)
        + Cardinality({i \in 1..Len(admitted) : admitted[i] > clock - Window})

\* C25 (as claimed): every external call of the advisor, the test requests
\* of its construction included, passes through the limiter's acquire, so
\* that at most requests_per_minute external requests are made in any
\* trailing 60 s
AllCallsLimited ==
    ctor = "done" /\ request_manager =>
        /\ calls = 0 => Len(admitted) = Len(probed)
        /\ RecentRequests <= requests_per_minute

\* C26 (as claimed): any two consecutive dispatches that a
\* GeminiRequestManager admits are at least min_delay_seconds apart (60 /
\* requests_per_minute when not given)
MinDelayKept ==
    \A i \in 1..(Len(admitted) - 1) :
        admitted[i + 1] - admitted[i] >= MinDelaySeconds

\* the recorded dispatches whose timestamp lies within the last 60 s
InLastMinute ==
    Cardinality({i \in 1..Len(request_times) :
                    clock - request_times[i] < Window})

\* C27 (as claimed): get_rate_limit_status reports requests_in_window equal
\* to the number of recorded dispatches of the last 60 s and available_slots
\* equal to capacity minus that number, so that available_slots is at least 1
\* whenever the next acquire would be admitted without waiting
StatusCountsLastMinute ==
    [][\A t \in Threads : CallStatus(t) =>
          /\ result'[t].requests_in_window = InLastMinute
          /\ result'[t].available_slots = result'[t].capacity - InLastMinute
          /\ ~MustWait(clock) => result'[t].available_slots >= 1]_vars

\* the sleeps of one kind that thread t made in its current call
Sleeps(t, kind) ==
    Cardinality({i \in 1..Len(slept[t]) : slept[t][i][1] = kind})

\* the attempts of the current call that thread t has begun
AttemptsBegun(t) ==
    Len(invoked[t]) + IF pc[t] \in {"rl_enter", "rl_sleep", "dispatch"} THEN 1 ELSE 0

GenerateBounded ==
    \A t \in Callers :
        /\ Len(invoked[t]) <= max_retries + 1
        /\ Sleeps(t, "backoff") <= max_retries
        /\ Sleeps(t, "rate") <= AttemptsBegun(t)

GenerateReturns == \A t \in Callers : (pc[t] # "idle") ~> (pc[t] = "idle")

\* C28: every generate call terminates: given fair lock acquisition and an
\* external service that returns or raises, it returns or raises after at
\* most max_retries + 1 dispatch attempts, at most max_retries backoff sleeps
\* and at most one rate-limit sleep per attempt
GenerateTerminates == []GenerateBounded /\ GenerateReturns

\* a generate call ended after max_retries + 1 attempts, max_retries backoff
\* sleeps and a sleep in the limiter
AllAttemptsUsed ==
    \E t \in Callers :
        /\ Finished(t)
        /\ op[t] = "generate"
        /\ max_retries >= 1
        /\ Len(invoked[t]) = max_retries + 1
        /\ Sleeps(t, "backoff") = max_retries
        /\ Sleeps(t, "rate") >= 1

\* C29 (as claimed): a cache entry is immutable once stored: whatever calls
\* are made and whatever a caller does to a value that was returned to it,
\* the lists, the texts and cache_hit = false of an entry that stays in the
\* cache stay as they were stored
CacheEntryImmutable ==
    [][\A i \in 1..Len(analysis_cache), j \in 1..Len(analysis_cache') :
          analysis_cache[i].key = analysis_cache'[j].key =>
              /\ analysis_cache'[j].value = analysis_cache[i].value
              /\ analysis_cache'[j].value.cache_hit = "False"]_vars

\* C30: after the construction of the advisor and after any sequence of
\* accessor calls, enabled is true exactly when an active model and its
\* request manager are set; hence no accessor, enhance_recommendations
\* included, is on its way to a dispatch with the request manager unset
EnabledIffReady ==
    /\ ctor = "done" => (enabled <=> (model # 0 /\ request_manager))
    /\ \A t \in Threads : pc[t] # "idle" => enabled /\ request_manager

\* enhance_recommendations of an advisor that was enabled by its second
\* candidate dispatched and returned
EnhanceDispatched ==
    /\ ctor = "done"
    /\ enabled
    /\ model = 2
    /\ \E t \in Callers :
          /\ Finished(t)
          /\ op[t] = "enhance"
          /\ Len(invoked[t]) >= 1

====
